---- MODULE Spec2Model ----
(***************************************************************************)
(* Model of the UAM network simulator engine                               *)
(* (src/src/Modules/Simulation/engine.py): Vertiport admission control,    *)
(* the VTOL state machine, route selection and Simulation.simulate_step.   *)
(*                                                                         *)
(* Vertiports lie on one horizontal line (all y equal), so that the        *)
(* straight-line planner's arithmetic is exact integer arithmetic on x.    *)
(* Drawing-only state (scale animation, colours, the drift towards the     *)
(* hover position) is left out: the position is read only by               *)
(* _update_movement, and a landing overwrites it before the next flight.   *)
(***************************************************************************)
EXTENDS Integers, Sequences, FiniteSets, TLC

VARIABLES vtols, occupied_slots, hovering_queue, passengers_waiting,
          passengers_arrived, capacity, current_time, vertiport_capacities,
          last, ncalls, driver, ghost, graph

vars == <<vtols, occupied_slots, hovering_queue, passengers_waiting,
          passengers_arrived, capacity, current_time, vertiport_capacities,
          last, ncalls, driver, ghost, graph>>

(***************************************************************************)
(* Bounds of the model.                                                    *)
(***************************************************************************)
MaxVtols == 3
MaxTime == 260
MaxOps == 4
MaxRouteLen == 4
MaxAdvances == 8
MaxLongTime == 1540
MaxShortTime == 80
MaxWaiting == 3
MaxRestarts == 2
MaxFairVtols == 2
MaxCrowd == 5
MaxRunVtols == 2

(***************************************************************************)
(* Program constants.                                                      *)
(***************************************************************************)
TakeoffTime == 30
LandingTime == 30
HoverTime == 60
HoverCap == 120
HoverBase == 60
HoverIncrement == 10
DwellTime == 15
RetryShort == 5
RetryDestination == 10
RetryRoute == 15
VtolSpeed == 4
ArrivalRadius == 8
CentreOffset == 30
MaxPassengers == 4
MaxLandedTime == 200
MaxHoverCount == 15

(***************************************************************************)
(* The network: vertiport names, positions and directed links.             *)
(***************************************************************************)
None == "None"
NoTarget == -1

VertiportNames == {"A", "B", "C", "D"}
NodesList == <<"A", "B", "C", "D">>

VertiportX(p) ==
    CASE p = "A" -> 80
      [] p = "B" -> 120
      [] p = "C" -> 284
      [] OTHER -> 0

Links == {<<"A", "B">>, <<"B", "A">>, <<"B", "C">>, <<"C", "B">>, <<"D", "C">>}

Centre(p) == VertiportX(p) + CentreOffset

Abs(n) == IF n < 0 THEN -n ELSE n

Weight(a, b) == Abs(VertiportX(b) - VertiportX(a))

(***************************************************************************)
(* Python list helpers.                                                    *)
(***************************************************************************)
Range(s) == {s[k] : k \in 1..Len(s)}

IndexOf(s, x) == CHOOSE k \in 1..Len(s) : s[k] = x /\ \A j \in 1..(k - 1) : s[j] # x

\* list.remove(x): removes the first occurrence
RemoveFirst(s, x) ==
    IF x \notin Range(s) THEN s
    ELSE LET k == IndexOf(s, x)
         IN SubSeq(s, 1, k - 1) \o SubSeq(s, k + 1, Len(s))

Min(a, b) == IF a < b THEN a ELSE b
Max(a, b) == IF a > b THEN a ELSE b

(***************************************************************************)
(* Network.find_shortest_path: nx.shortest_path with weight = distance.    *)
(***************************************************************************)
\* graph is the edge set of Network.graph; every vertiport is a node of it
GraphNodes == VertiportNames

RECURSIVE SimplePaths(_, _, _)
SimplePaths(a, b, visited) ==
    IF a = b THEN {<<a>>}
    ELSE UNION {{<<a>> \o q : q \in SimplePaths(n, b, visited \cup {n})} :
                  n \in {m \in GraphNodes \ visited : <<a, m>> \in graph}}

RECURSIVE PathWeight(_)
PathWeight(path) ==
    IF Len(path) < 2 THEN 0
    ELSE Weight(path[1], path[2]) + PathWeight(Tail(path))

\* an exception that leaves the method
Raised(exc) == <<"raise", exc>>

\* nx.shortest_path(graph, source, target, weight='weight')
nx_shortest_path(source, target) ==
    IF source \notin GraphNodes \/ target \notin GraphNodes
    THEN Raised("NodeNotFound")
    ELSE LET ps == SimplePaths(source, target, {source})
         IN IF ps = {} THEN Raised("NetworkXNoPath")
            ELSE CHOOSE q \in ps : \A r \in ps : PathWeight(q) <= PathWeight(r)

find_shortest_path(origin, destination) ==
    LET r == nx_shortest_path(origin, destination)
    IN IF r = Raised("NetworkXNoPath") THEN <<>> ELSE r

\* faulty variant: the endpoints are not looked up before the search
get_shortest_path_unguarded(origin, destination) ==
    LET r == nx_shortest_path(origin, destination)
    IN IF r = Raised("NetworkXNoPath") THEN <<>> ELSE r

get_shortest_path(origin, destination) ==
    IF origin \notin VertiportNames \/ destination \notin VertiportNames
    THEN <<>>
    ELSE LET r == nx_shortest_path(origin, destination)
         IN IF r = Raised("NetworkXNoPath") THEN <<>> ELSE r

(***************************************************************************)
(* The world the methods act on: w.vtols is Simulation.vtols (creation     *)
(* order; a VTOL is named by its index), w.occupied_slots and              *)
(* w.hovering_queue map each vertiport to its lists.  w.g is history kept  *)
(* for the properties only.                                                *)
(***************************************************************************)
World(now) ==
    [vtols |-> vtols, occupied_slots |-> occupied_slots,
     hovering_queue |-> hovering_queue,
     passengers_waiting |-> passengers_waiting,
     passengers_arrived |-> passengers_arrived, now |-> now, g |-> ghost]

SetField(w, i, f, val) == [w EXCEPT !.vtols[i][f] = val]

SetGhost(w, i, f, val) == [w EXCEPT !.g.v[i][f] = val]

FreeSlots(w, p) == capacity[p] - Len(w.occupied_slots[p])

\* VTOL.__init__
NewVTOL(x) ==
    [xo |-> x,
     destination_vertiport |-> None,
     current_vertiport |-> None,
     flight_path |-> <<>>,
     current_path_index |-> 0,
     intermediate_target |-> NoTarget,
     clean |-> FALSE,
     state |-> "landed",
     state_timer |-> 0,
     is_circulating |-> FALSE,
     planned_route |-> <<>>,
     current_route_index |-> 0,
     is_circular_route |-> FALSE,
     reverse_direction |-> FALSE,
     has_next_destination |-> TRUE,
     next_destination |-> None,
     final_destination |-> None,
     journey_route |-> <<>>,
     onboard_passengers |-> <<>>,
     landed_timer |-> 0,
     hover_count |-> 0,
     can_attempt_landing |-> TRUE,
     departure_time |-> 0,
     status |-> "WAITING"]

\* history of one VTOL, for the properties
NewGhost ==
    [updates |-> 0, processed |-> 0,
     arrival_tick |-> 0, arrival_vp |-> None, arrival_free |-> 0,
     arrival_ok |-> FALSE,
     commit_tick |-> 0, commit_vp |-> None, commit_free |-> 0,
     commit_ok |-> FALSE,
     left |-> [p \in VertiportNames |-> 0],
     selected |-> <<>>, advances |-> 0,
     wait |-> 0, failed |-> 0,
     race |-> [tick |-> 0, vp |-> None, winner |-> 0]]

(***************************************************************************)
(* Vertiport admission control.                                            *)
(***************************************************************************)
\* faulty variant: the capacity test is off by one
can_land_inclusive(w, p) == Len(w.occupied_slots[p]) <= capacity[p]

can_land(w, p) == Len(w.occupied_slots[p]) < capacity[p]

request_landing_ret(w, p, i) == can_land(w, p)

\* faulty variant: a granted request reserves the slot
request_landing_reserves(w, p, i) ==
    IF can_land(w, p) THEN [w EXCEPT !.occupied_slots[p] = Append(@, i)]
    ELSE IF i \notin Range(w.hovering_queue[p])
         THEN [w EXCEPT !.hovering_queue[p] = Append(@, i)]
         ELSE w

\* faulty variant: a refused request is queued without the membership test
request_landing_duplicates(w, p, i) ==
    IF can_land(w, p) THEN w
    ELSE [w EXCEPT !.hovering_queue[p] = Append(@, i)]

request_landing(w, p, i) ==
    IF can_land(w, p) THEN w
    ELSE IF i \notin Range(w.hovering_queue[p])
         THEN [w EXCEPT !.hovering_queue[p] = Append(@, i)]
         ELSE w

land_vtol_ret(w, p, i) == can_land(w, p)

\* faulty variant: the landing leaves the VTOL in the hovering queue
land_vtol_keeps_queue(w, p, i) ==
    IF can_land(w, p)
    THEN [w EXCEPT !.occupied_slots[p] = Append(@, i)]
    ELSE w

\* faulty variant: the landing is committed without the capacity test
land_vtol_unchecked(w, p, i) ==
    [w EXCEPT !.occupied_slots[p] = Append(@, i),
              !.hovering_queue[p] = RemoveFirst(@, i)]

land_vtol(w, p, i) ==
    IF can_land(w, p)
    THEN [w EXCEPT !.occupied_slots[p] = Append(@, i),
                   !.hovering_queue[p] = RemoveFirst(@, i)]
    ELSE w

takeoff_vtol_ret(w, p, i) == i \in Range(w.occupied_slots[p])

\* faulty variant: the hovering VTOLs are notified before the membership test
takeoff_vtol_notifies_always(w, p, i) ==
    LET wn == [w EXCEPT !.vtols = [k \in DOMAIN w.vtols |->
                                     IF k \in Range(w.hovering_queue[p])
                                     THEN [w.vtols[k] EXCEPT !.can_attempt_landing = TRUE]
                                     ELSE w.vtols[k]]]
    IN IF i \in Range(w.occupied_slots[p])
       THEN [wn EXCEPT !.occupied_slots[p] = RemoveFirst(@, i),
                       !.vtols[i].landed_timer = 0,
                       !.vtols[i].hover_count = 0]
       ELSE wn

takeoff_vtol(w, p, i) ==
    IF i \in Range(w.occupied_slots[p])
    THEN [w EXCEPT !.occupied_slots[p] = RemoveFirst(@, i),
                   !.vtols = [k \in DOMAIN w.vtols |->
                                LET r == IF k = i
                                         THEN [w.vtols[k] EXCEPT !.landed_timer = 0,
                                                                 !.hover_count = 0]
                                         ELSE w.vtols[k]
                                IN IF k \in Range(w.hovering_queue[p])
                                   THEN [r EXCEPT !.can_attempt_landing = TRUE]
                                   ELSE r]]
    ELSE w

(***************************************************************************)
(* Passengers: a passenger is [id, destination_vertiport, state].          *)
(***************************************************************************)
RECURSIVE PickPassengers(_, _, _)
PickPassengers(s, destination_name, count) ==
    IF s = <<>> \/ count <= 0 THEN <<>>
    ELSE IF Head(s).destination_vertiport = destination_name
         THEN <<Head(s)>> \o PickPassengers(Tail(s), destination_name, count - 1)
         ELSE PickPassengers(Tail(s), destination_name, count)

RECURSIVE LeavePassengers(_, _, _)
LeavePassengers(s, destination_name, count) ==
    IF s = <<>> \/ count <= 0 THEN s
    ELSE IF Head(s).destination_vertiport = destination_name
         THEN LeavePassengers(Tail(s), destination_name, count - 1)
         ELSE <<Head(s)>> \o LeavePassengers(Tail(s), destination_name, count)

\* Vertiport.get_passengers_for_destination: the passengers taken
get_passengers_for_destination_ret(w, p, destination_name, count) ==
    PickPassengers(w.passengers_waiting[p], destination_name, count)

\* faulty variant: the passengers taken are left in the waiting list as well
get_passengers_for_destination_copies(w, p, destination_name, count) == w

get_passengers_for_destination(w, p, destination_name, count) ==
    [w EXCEPT !.passengers_waiting[p] = LeavePassengers(@, destination_name, count)]

\* Vertiport.add_passenger
add_passenger(w, p, passenger) ==
    [w EXCEPT !.passengers_waiting[p] = Append(@, [passenger EXCEPT !.state = "waiting"])]

\* Vertiport.receive_passenger (Person.arrive_at_destination sets "leaving")
receive_passenger(w, p, passenger) ==
    [w EXCEPT !.passengers_arrived[p] = Append(@, [passenger EXCEPT !.state = "leaving"])]

SetFlying(s) == [k \in 1..Len(s) |-> [s[k] EXCEPT !.state = "flying"]]

\* faulty variant: the seats taken by the passengers on board are not subtracted
board_passengers_ignores_onboard(w, i) ==
    LET v == w.vtols[i]
        available_seats == MaxPassengers
    IN IF v.current_vertiport = None \/ v.destination_vertiport = None THEN w
       ELSE LET taken == get_passengers_for_destination_ret(
                             w, v.current_vertiport, v.destination_vertiport,
                             available_seats)
                w1 == get_passengers_for_destination(
                          w, v.current_vertiport, v.destination_vertiport,
                          available_seats)
            IN SetField(w1, i, "onboard_passengers",
                        v.onboard_passengers \o SetFlying(taken))

\* faulty variant: every passenger waiting for the destination boards, seats or not
board_passengers_all_waiting(w, i) ==
    LET v == w.vtols[i]
    IN IF v.current_vertiport = None \/ v.destination_vertiport = None THEN w
       ELSE LET n == Len(w.passengers_waiting[v.current_vertiport])
                taken == get_passengers_for_destination_ret(
                             w, v.current_vertiport, v.destination_vertiport, n)
                w1 == get_passengers_for_destination(
                          w, v.current_vertiport, v.destination_vertiport, n)
            IN SetField(w1, i, "onboard_passengers",
                        v.onboard_passengers \o SetFlying(taken))

\* VTOL._board_passengers
board_passengers(w, i) ==
    LET v == w.vtols[i]
        available_seats == MaxPassengers - Len(v.onboard_passengers)
    IN IF v.current_vertiport = None \/ v.destination_vertiport = None THEN w
       ELSE IF available_seats <= 0 THEN w
       ELSE LET taken == get_passengers_for_destination_ret(
                             w, v.current_vertiport, v.destination_vertiport,
                             available_seats)
                w1 == get_passengers_for_destination(
                          w, v.current_vertiport, v.destination_vertiport,
                          available_seats)
            IN SetField(w1, i, "onboard_passengers",
                        v.onboard_passengers \o SetFlying(taken))

RECURSIVE ReceiveAll(_, _, _)
ReceiveAll(w, p, s) ==
    IF s = <<>> THEN w
    ELSE ReceiveAll(receive_passenger(w, p, Head(s)), p, Tail(s))

\* faulty variant: every passenger on board leaves at any landing
disembark_passengers_everyone(w, i) ==
    LET v == w.vtols[i]
    IN IF v.current_vertiport = None THEN w
       ELSE ReceiveAll(SetField(w, i, "onboard_passengers", <<>>),
                       v.current_vertiport, v.onboard_passengers)

\* VTOL._disembark_passengers
disembark_passengers(w, i) ==
    LET v == w.vtols[i]
        here(q) == q.destination_vertiport # None
                   /\ q.destination_vertiport = v.current_vertiport
        notHere(q) == ~here(q)
    IN IF v.current_vertiport = None THEN w
       ELSE ReceiveAll(SetField(w, i, "onboard_passengers",
                                SelectSeq(v.onboard_passengers, notHere)),
                       v.current_vertiport,
                       SelectSeq(v.onboard_passengers, here))

(***************************************************************************)
(* VTOL: take-off, landing request, hovering.                              *)
(***************************************************************************)
\* faulty variant: the take-off does not give the slot back
start_takeoff_keeps_slot(w, i) ==
    IF w.vtols[i].state # "landed" THEN w
    ELSE [board_passengers(w, i) EXCEPT !.vtols[i].state = "taking_off",
                                        !.vtols[i].state_timer = TakeoffTime,
                                        !.vtols[i].current_vertiport = None]

\* VTOL._start_takeoff
start_takeoff(w, i) ==
    IF w.vtols[i].state # "landed" THEN w
    ELSE LET w1 == board_passengers(w, i)
             cur == w1.vtols[i].current_vertiport
             w2 == IF cur # None THEN takeoff_vtol(w1, cur, i) ELSE w1
             w3 == IF cur # None /\ takeoff_vtol_ret(w1, cur, i)
                   THEN [w2 EXCEPT !.g.v[i].left[cur] = w.now]
                   ELSE w2
         IN [w3 EXCEPT !.vtols[i].state = "taking_off",
                       !.vtols[i].state_timer = TakeoffTime,
                       !.vtols[i].current_vertiport = None]

\* faulty variant: the abort leaves the queue but does not mark the VTOL
find_alternative_or_abort_unmarked(w, i) ==
    LET d == w.vtols[i].destination_vertiport
    IN IF d # None /\ i \in Range(w.hovering_queue[d])
       THEN [w EXCEPT !.hovering_queue[d] = RemoveFirst(@, i)]
       ELSE w

\* VTOL._find_alternative_or_abort
find_alternative_or_abort(w, i) ==
    LET d == w.vtols[i].destination_vertiport
        w1 == IF d # None /\ i \in Range(w.hovering_queue[d])
              THEN [w EXCEPT !.hovering_queue[d] = RemoveFirst(@, i)]
              ELSE w
    IN SetField(w1, i, "clean", TRUE)

\* faulty variant: every hover aborts the mission
start_hovering_aborts(w, i) ==
    find_alternative_or_abort(
        [w EXCEPT !.vtols[i].state = "hovering",
                  !.vtols[i].state_timer = HoverTime,
                  !.vtols[i].hover_count = @ + 1,
                  !.vtols[i].can_attempt_landing = FALSE], i)

\* VTOL._start_hovering
start_hovering(w, i) ==
    LET w1 == [w EXCEPT !.vtols[i].state = "hovering",
                        !.vtols[i].state_timer = HoverTime,
                        !.vtols[i].hover_count = @ + 1,
                        !.vtols[i].can_attempt_landing = FALSE,
                        !.g.v[i].wait = HoverTime,
                        !.g.v[i].failed = 0]
    IN IF w1.vtols[i].hover_count > MaxHoverCount
       THEN find_alternative_or_abort(w1, i)
       ELSE w1

BeginLanding(w, i) ==
    [w EXCEPT !.vtols[i].state = "landing",
              !.vtols[i].state_timer = LandingTime]

\* VTOL._start_landing
start_landing(w, i) ==
    LET v == w.vtols[i]
        d == v.destination_vertiport
    IN IF v.state \notin {"flying", "in_transit", "hovering"} THEN w
       ELSE IF d = None THEN BeginLanding(w, i)
       ELSE IF request_landing_ret(w, d, i)
            THEN BeginLanding(request_landing(w, d, i), i)
            ELSE start_hovering(request_landing(w, d, i), i)

(***************************************************************************)
(* VTOL: destinations and routes.                                          *)
(***************************************************************************)
\* VTOL.find_nearest_vertiport (first minimum in the iteration order)
find_nearest_vertiport(w, i) ==
    LET x == w.vtols[i].xo
        dist(k) == Abs(x - Centre(NodesList[k]))
        best == CHOOSE k \in 1..Len(NodesList) :
                    /\ \A j \in 1..Len(NodesList) : dist(k) <= dist(j)
                    /\ \A j \in 1..(k - 1) : dist(j) > dist(k)
    IN NodesList[best]

\* VTOL.set_destination_vertiport
set_destination_vertiport_ret(w, i, destination_vertiport) ==
    /\ destination_vertiport \in VertiportNames
    /\ LET cur == IF w.vtols[i].current_vertiport = None
                  THEN find_nearest_vertiport(w, i)
                  ELSE w.vtols[i].current_vertiport
       IN find_shortest_path(cur, destination_vertiport) # <<>>

set_destination_vertiport(w, i, destination_vertiport) ==
    IF destination_vertiport \notin VertiportNames THEN w
    ELSE LET cur == IF w.vtols[i].current_vertiport = None
                    THEN find_nearest_vertiport(w, i)
                    ELSE w.vtols[i].current_vertiport
             path == find_shortest_path(cur, destination_vertiport)
             w1 == [w EXCEPT !.vtols[i].current_vertiport = cur,
                             !.vtols[i].flight_path = path]
         IN IF path = <<>> THEN w1
            ELSE LET w2 == [w1 EXCEPT
                              !.vtols[i].destination_vertiport = destination_vertiport,
                              !.vtols[i].current_path_index = 0]
                 IN IF Len(path) = 1 THEN w2 ELSE start_takeoff(w2, i)

\* the index chosen by the ping-pong / circular rule, and the direction flag
\* it leaves (shared text of _set_next_planned_route_destination l.303-321
\* and get_next_planned_destination l.859-875)
\* faulty variant: every route wraps around, the ping-pong rule is lost
NextIndex_wraps(route, index, circular, reverse) ==
    (index + 1) % Len(route)

NextIndex(route, index, circular, reverse) ==
    IF circular THEN (index + 1) % Len(route)
    ELSE IF ~reverse
         THEN IF index + 1 >= Len(route) THEN index - 1 ELSE index + 1
         ELSE IF index - 1 < 0 THEN index + 1 ELSE index - 1

NextReverse(route, index, circular, reverse) ==
    IF circular THEN reverse
    ELSE IF ~reverse
         THEN IF index + 1 >= Len(route) THEN TRUE ELSE FALSE
         ELSE IF index - 1 < 0 THEN FALSE ELSE TRUE

\* VTOL._set_next_planned_route_destination
set_next_planned_route_destination_ret(w, i) ==
    LET v == w.vtols[i]
        circular == v.planned_route[1] = v.planned_route[Len(v.planned_route)]
        next_index == NextIndex(v.planned_route, v.current_route_index,
                                circular, v.reverse_direction)
    IN /\ Len(v.planned_route) >= 2
       /\ next_index >= 0 /\ next_index < Len(v.planned_route)
       /\ v.planned_route[next_index + 1] \in VertiportNames

set_next_planned_route_destination(w, i) ==
    LET v == w.vtols[i]
    IN IF Len(v.planned_route) < 2 THEN w
       ELSE LET circular == v.planned_route[1] = v.planned_route[Len(v.planned_route)]
                next_index == NextIndex(v.planned_route, v.current_route_index,
                                        circular, v.reverse_direction)
                w1 == [w EXCEPT !.vtols[i].is_circular_route = circular,
                                !.vtols[i].reverse_direction =
                                    NextReverse(v.planned_route, v.current_route_index,
                                                circular, v.reverse_direction)]
            IN IF next_index < 0 \/ next_index >= Len(v.planned_route) THEN w1
               ELSE IF v.planned_route[next_index + 1] \notin VertiportNames THEN w1
               ELSE [w1 EXCEPT !.vtols[i].state_timer = DwellTime,
                               !.vtols[i].has_next_destination = TRUE,
                               !.vtols[i].next_destination =
                                   v.planned_route[next_index + 1]]

\* VTOL._set_next_circular_destination (no planned route)
set_next_circular_destination(w, i) ==
    LET cur == w.vtols[i].current_vertiport
        k == IndexOf(NodesList, cur)
    IN [w EXCEPT !.vtols[i].state_timer = DwellTime,
                 !.vtols[i].has_next_destination = TRUE,
                 !.vtols[i].next_destination = NodesList[(k % Len(NodesList)) + 1]]

\* VTOL._set_next_circulation_destination
set_next_circulation_destination_ret(w, i) ==
    IF w.vtols[i].current_vertiport = None THEN FALSE
    ELSE IF w.vtols[i].planned_route # <<>>
         THEN set_next_planned_route_destination_ret(w, i)
         ELSE TRUE

set_next_circulation_destination(w, i) ==
    IF w.vtols[i].current_vertiport = None THEN w
    ELSE IF w.vtols[i].planned_route # <<>>
         THEN set_next_planned_route_destination(w, i)
         ELSE set_next_circular_destination(w, i)

\* VTOL.get_next_planned_destination: the stop returned (None if none) ...
get_next_planned_destination_ret(w, i) ==
    LET v == w.vtols[i]
        next_index == NextIndex(v.planned_route, v.current_route_index,
                                v.is_circular_route, v.reverse_direction)
    IN IF Len(v.planned_route) < 2 THEN None
       ELSE IF 0 <= next_index /\ next_index < Len(v.planned_route)
            THEN v.planned_route[next_index + 1]
            ELSE None

\* ... and its effect on the direction flag
get_next_planned_destination(w, i) ==
    LET v == w.vtols[i]
    IN IF Len(v.planned_route) < 2 THEN w
       ELSE SetField(w, i, "reverse_direction",
                     NextReverse(v.planned_route, v.current_route_index,
                                 v.is_circular_route, v.reverse_direction))

\* faulty variant: the commit goes forward whatever the direction flag says
AdvanceIndex_ignores_flag(v) ==
    IF v.is_circular_route
    THEN [v EXCEPT !.current_route_index = (@ + 1) % Len(v.planned_route)]
    ELSE IF v.current_route_index + 1 >= Len(v.planned_route)
         THEN [v EXCEPT !.reverse_direction = TRUE,
                        !.current_route_index = @ + 1 - 2]
         ELSE [v EXCEPT !.current_route_index = @ + 1]

\* faulty variant: the circular case is lost, every route bounces at its ends
AdvanceIndex_bounces(v) ==
    IF ~v.reverse_direction
    THEN IF v.current_route_index + 1 >= Len(v.planned_route)
         THEN [v EXCEPT !.reverse_direction = TRUE,
                        !.current_route_index = @ + 1 - 2]
         ELSE [v EXCEPT !.current_route_index = @ + 1]
    ELSE IF v.current_route_index - 1 < 0
         THEN [v EXCEPT !.reverse_direction = FALSE,
                        !.current_route_index = @ - 1 + 2]
         ELSE [v EXCEPT !.current_route_index = @ - 1]

\* the index update of advance_to_next_planned_destination (l.888-900)
AdvanceIndex(v) ==
    IF v.is_circular_route
    THEN [v EXCEPT !.current_route_index = (@ + 1) % Len(v.planned_route)]
    ELSE IF ~v.reverse_direction
         THEN IF v.current_route_index + 1 >= Len(v.planned_route)
              THEN [v EXCEPT !.reverse_direction = TRUE,
                             !.current_route_index = @ + 1 - 2]
              ELSE [v EXCEPT !.current_route_index = @ + 1]
         ELSE IF v.current_route_index - 1 < 0
              THEN [v EXCEPT !.reverse_direction = FALSE,
                             !.current_route_index = @ - 1 + 2]
              ELSE [v EXCEPT !.current_route_index = @ - 1]

\* VTOL.advance_to_next_planned_destination
advance_to_next_planned_destination_ret(w, i) ==
    LET next_dest_name == get_next_planned_destination_ret(w, i)
        w1 == get_next_planned_destination(w, i)
        w2 == [w1 EXCEPT !.vtols[i] = AdvanceIndex(@)]
    IN /\ next_dest_name # None
       /\ next_dest_name \in VertiportNames
       /\ set_destination_vertiport_ret(w2, i, next_dest_name)

advance_to_next_planned_destination(w, i) ==
    LET next_dest_name == get_next_planned_destination_ret(w, i)
        w1 == get_next_planned_destination(w, i)
        w2 == [w1 EXCEPT !.vtols[i] = AdvanceIndex(@),
                         !.g.v[i].selected = Append(@, next_dest_name),
                         !.g.v[i].advances = @ + 1]
    IN IF next_dest_name = None THEN w1
       ELSE IF next_dest_name \in VertiportNames
            THEN set_destination_vertiport(w2, i, next_dest_name)
            ELSE w2

(***************************************************************************)
(* VTOL.update                                                             *)
(***************************************************************************)
\* VTOL._get_next_waypoint: the waypoint returned (NoTarget for None) ...
get_next_waypoint_ret(w, i) ==
    LET v == w.vtols[i]
    IN IF v.current_path_index < Len(v.flight_path) - 1
       THEN Centre(v.flight_path[v.current_path_index + 2])
       ELSE NoTarget

\* ... and its effect on the path index
get_next_waypoint(w, i) ==
    LET v == w.vtols[i]
    IN IF v.current_path_index < Len(v.flight_path) - 1
       THEN SetField(w, i, "current_path_index", v.current_path_index + 1)
       ELSE w

\* StraightLinePathPlanner.get_next_point on the line of the vertiports
get_next_point(current_pos, target_pos, step) ==
    LET dist == Abs(target_pos - current_pos)
    IN IF dist = 0 \/ dist < step THEN target_pos
       ELSE IF target_pos > current_pos THEN current_pos + step
       ELSE current_pos - step

\* the end of a flight: _start_landing called from _update_movement
EndFlight(w, i) ==
    LET d == w.vtols[i].destination_vertiport
        wg == [w EXCEPT !.g.v[i].arrival_tick = w.now,
                        !.g.v[i].arrival_vp = d,
                        !.g.v[i].arrival_free = IF d = None THEN 0 ELSE FreeSlots(w, d),
                        !.g.v[i].arrival_ok = (d = None \/ request_landing_ret(w, d, i))]
    IN start_landing(wg, i)

\* VTOL._update_movement
update_movement(w, i) ==
    IF w.vtols[i].state \notin {"flying", "in_transit"} THEN w
    ELSE LET w1 == IF w.vtols[i].intermediate_target = NoTarget
                   THEN SetField(get_next_waypoint(w, i), i, "intermediate_target",
                                 get_next_waypoint_ret(w, i))
                   ELSE w
         IN IF w1.vtols[i].intermediate_target = NoTarget THEN EndFlight(w1, i)
            ELSE LET target == w1.vtols[i].intermediate_target
                     new_pos == get_next_point(w1.vtols[i].xo, target, VtolSpeed)
                     w2 == SetField(w1, i, "xo", new_pos)
                 IN IF Abs(new_pos - target) < ArrivalRadius
                    THEN LET w3 == SetField(get_next_waypoint(w2, i), i,
                                            "intermediate_target",
                                            get_next_waypoint_ret(w2, i))
                         IN IF w3.vtols[i].intermediate_target = NoTarget
                            THEN EndFlight(w3, i)
                            ELSE w3
                    ELSE w2

\* update, state "taking_off" (l.571-578)
UpdateTakingOff(w, i) ==
    LET w1 == SetField(w, i, "landed_timer", 0)
        v == w1.vtols[i]
    IN IF v.state_timer <= 0
       THEN IF Len(v.flight_path) > 1
            THEN [w1 EXCEPT !.vtols[i].state = "flying",
                            !.vtols[i].intermediate_target = Centre(v.flight_path[2]),
                            !.vtols[i].current_path_index = 0]
            ELSE SetField(w1, i, "state", "flying")
       ELSE w1

\* history: the VTOL that won, in this tick, the slot VTOL i is refused, when
\* both ended their flights in the same tick at a then empty vertiport
RaceLost(w, i, d) ==
    LET winners == {k \in 1..Len(w.vtols) :
                       /\ k # i
                       /\ w.g.v[k].commit_tick = w.now
                       /\ w.g.v[k].commit_vp = d
                       /\ w.g.v[k].commit_ok
                       /\ w.g.v[k].arrival_vp = d
                       /\ w.g.v[i].arrival_vp = d
                       /\ w.g.v[k].arrival_tick = w.g.v[i].arrival_tick
                       /\ w.g.v[k].arrival_free = capacity[d]
                       /\ w.g.v[i].arrival_free = capacity[d]}
    IN IF winners = {} THEN w
       ELSE [w EXCEPT !.g.v[i].race =
                [tick |-> w.now, vp |-> d,
                 winner |-> CHOOSE k \in winners : \A j \in winners : k <= j]]

\* faulty variant: a landing at the destination completes any VTOL, on a route or not
UpdateLanding_completes_any(w, i) ==
    LET v == w.vtols[i]
        d == v.destination_vertiport
    IN IF v.state_timer > 0 THEN w
       ELSE LET wg == IF d = None THEN w
                      ELSE [w EXCEPT !.g.v[i].commit_tick = w.now,
                                     !.g.v[i].commit_vp = d,
                                     !.g.v[i].commit_free = FreeSlots(w, d),
                                     !.g.v[i].commit_ok = land_vtol_ret(w, d, i)]
                w1 == IF d # None
                      THEN IF land_vtol_ret(wg, d, i)
                           THEN disembark_passengers(
                                    [land_vtol(wg, d, i) EXCEPT
                                        !.vtols[i].state = "landed",
                                        !.vtols[i].xo = Centre(d),
                                        !.vtols[i].current_vertiport = d], i)
                           ELSE start_hovering(RaceLost(land_vtol(wg, d, i), i, d), i)
                      ELSE disembark_passengers(
                               [wg EXCEPT !.vtols[i].state = "landed",
                                          !.vtols[i].current_vertiport = d], i)
                v1 == w1.vtols[i]
            IN IF v1.current_vertiport # None /\ v1.destination_vertiport # None
                  /\ v1.current_vertiport = v1.destination_vertiport
               THEN SetField(w1, i, "clean", TRUE)
               ELSE w1

\* update, state "landing" (l.580-608)
UpdateLanding(w, i) ==
    LET v == w.vtols[i]
        d == v.destination_vertiport
    IN IF v.state_timer > 0 THEN w
       ELSE LET wg == IF d = None THEN w
                      ELSE [w EXCEPT !.g.v[i].commit_tick = w.now,
                                     !.g.v[i].commit_vp = d,
                                     !.g.v[i].commit_free = FreeSlots(w, d),
                                     !.g.v[i].commit_ok = land_vtol_ret(w, d, i)]
                w1 == IF d # None
                      THEN IF land_vtol_ret(wg, d, i)
                           THEN disembark_passengers(
                                    [land_vtol(wg, d, i) EXCEPT
                                        !.vtols[i].state = "landed",
                                        !.vtols[i].xo = Centre(d),
                                        !.vtols[i].current_vertiport = d], i)
                           ELSE start_hovering(RaceLost(land_vtol(wg, d, i), i, d), i)
                      ELSE disembark_passengers(
                               [wg EXCEPT !.vtols[i].state = "landed",
                                          !.vtols[i].current_vertiport = d], i)
                v1 == w1.vtols[i]
            IN IF v1.current_vertiport # None /\ v1.destination_vertiport # None
                  /\ v1.current_vertiport = v1.destination_vertiport
               THEN IF v1.is_circulating
                    THEN set_next_circulation_destination(w1, i)
                    ELSE SetField(w1, i, "clean", TRUE)
               ELSE w1

\* faulty variant: the wake flag is ignored, only the timer triggers a re-check
UpdateHovering_timer_only(w, i) ==
    LET v == w.vtols[i]
        d == v.destination_vertiport
    IN IF v.state_timer <= 0
       THEN IF d # None /\ can_land(w, d)
            THEN start_landing(w, i)
            ELSE [w EXCEPT !.vtols[i].state_timer =
                               Min(HoverCap, HoverBase + (v.hover_count * HoverIncrement)),
                           !.vtols[i].can_attempt_landing = FALSE]
       ELSE w

\* update, state "hovering" (l.610-630)
UpdateHovering(w, i) ==
    LET v == w.vtols[i]
        d == v.destination_vertiport
        wait == Min(HoverCap, HoverBase + (v.hover_count * HoverIncrement))
    IN IF v.can_attempt_landing \/ v.state_timer <= 0
       THEN IF d # None /\ can_land(w, d)
            THEN start_landing(w, i)
            ELSE [w EXCEPT !.vtols[i].state_timer = wait,
                           !.vtols[i].can_attempt_landing = FALSE,
                           !.g.v[i].wait = IF d # None THEN wait ELSE @,
                           !.g.v[i].failed = IF d # None THEN @ + 1 ELSE @]
       ELSE w

\* the planned-route index of the stop just scheduled (l.656-662)
RouteIndexOf(v, next_dest) ==
    IF v.planned_route # <<>> /\ next_dest \in Range(v.planned_route)
    THEN [v EXCEPT !.current_route_index = IndexOf(v.planned_route, next_dest) - 1]
    ELSE v

\* faulty variant: the forced step leaves landed_timer as it is
UpdateLanded_no_reset(w, i) ==
    LET w1 == SetField(w, i, "landed_timer", w.vtols[i].landed_timer + 1)
        v == w1.vtols[i]
    IN IF v.landed_timer > MaxLandedTime
       THEN LET w2 == IF v.is_circulating
                      THEN IF set_next_circulation_destination_ret(w1, i)
                           THEN set_next_circulation_destination(w1, i)
                           ELSE SetField(set_next_circulation_destination(w1, i),
                                         i, "state_timer", RetryShort)
                      ELSE SetField(w1, i, "clean", TRUE)
            IN w2
       ELSE IF v.is_circulating /\ v.state_timer <= 0
       THEN IF v.has_next_destination
            THEN LET next_dest == v.next_destination
                     w2 == SetField(w1, i, "has_next_destination", FALSE)
                     w3 == set_destination_vertiport(w2, i, next_dest)
                 IN IF set_destination_vertiport_ret(w2, i, next_dest)
                    THEN [w3 EXCEPT !.vtols[i] =
                                [RouteIndexOf(@, next_dest) EXCEPT !.landed_timer = 0]]
                    ELSE SetField(w3, i, "state_timer", RetryDestination)
            ELSE IF set_next_circulation_destination_ret(w1, i)
                 THEN SetField(set_next_circulation_destination(w1, i),
                               i, "landed_timer", 0)
                 ELSE SetField(set_next_circulation_destination(w1, i),
                               i, "state_timer", RetryRoute)
       ELSE IF v.planned_route # <<>> /\ v.is_circulating /\ v.state_timer <= 0
       THEN IF advance_to_next_planned_destination_ret(w1, i)
            THEN [advance_to_next_planned_destination(w1, i) EXCEPT
                      !.vtols[i].status = "FLYING", !.vtols[i].landed_timer = 0]
            ELSE SetField(advance_to_next_planned_destination(w1, i),
                          i, "state_timer", RetryRoute)
       ELSE IF ~v.is_circulating
       THEN IF v.final_destination # None
               /\ v.current_vertiport # v.final_destination
               /\ v.state_timer <= 0
            THEN SetField(set_destination_vertiport(w1, i, v.final_destination),
                          i, "landed_timer", 0)
            ELSE w1
       ELSE w1

\* update, state "landed" (l.632-698)
UpdateLanded(w, i) ==
    LET w1 == SetField(w, i, "landed_timer", w.vtols[i].landed_timer + 1)
        v == w1.vtols[i]
    IN IF v.landed_timer > MaxLandedTime
       THEN LET w2 == IF v.is_circulating
                      THEN IF set_next_circulation_destination_ret(w1, i)
                           THEN set_next_circulation_destination(w1, i)
                           ELSE SetField(set_next_circulation_destination(w1, i),
                                         i, "state_timer", RetryShort)
                      ELSE SetField(w1, i, "clean", TRUE)
            IN SetField(w2, i, "landed_timer", 0)
       ELSE IF v.is_circulating /\ v.state_timer <= 0
       THEN IF v.has_next_destination
            THEN LET next_dest == v.next_destination
                     w2 == SetField(w1, i, "has_next_destination", FALSE)
                     w3 == set_destination_vertiport(w2, i, next_dest)
                 IN IF set_destination_vertiport_ret(w2, i, next_dest)
                    THEN [w3 EXCEPT !.vtols[i] =
                                [RouteIndexOf(@, next_dest) EXCEPT !.landed_timer = 0]]
                    ELSE SetField(w3, i, "state_timer", RetryDestination)
            ELSE IF set_next_circulation_destination_ret(w1, i)
                 THEN SetField(set_next_circulation_destination(w1, i),
                               i, "landed_timer", 0)
                 ELSE SetField(set_next_circulation_destination(w1, i),
                               i, "state_timer", RetryRoute)
       ELSE IF v.planned_route # <<>> /\ v.is_circulating /\ v.state_timer <= 0
       THEN IF advance_to_next_planned_destination_ret(w1, i)
            THEN [advance_to_next_planned_destination(w1, i) EXCEPT
                      !.vtols[i].status = "FLYING", !.vtols[i].landed_timer = 0]
            ELSE SetField(advance_to_next_planned_destination(w1, i),
                          i, "state_timer", RetryRoute)
       ELSE IF ~v.is_circulating
       THEN IF v.final_destination # None
               /\ v.current_vertiport # v.final_destination
               /\ v.state_timer <= 0
            THEN SetField(set_destination_vertiport(w1, i, v.final_destination),
                          i, "landed_timer", 0)
            ELSE w1
       ELSE w1

\* the status mapping that ends update (l.705-711)
UpdateStatus(v) ==
    IF v.state = "landed" THEN [v EXCEPT !.status = "LANDED"]
    ELSE IF v.state \in {"flying", "in_transit", "taking_off", "landing"}
         THEN [v EXCEPT !.status = "FLYING"]
    ELSE IF v.status \notin {"FLYING", "LANDED"}
         THEN [v EXCEPT !.status = "WAITING"]
    ELSE v

\* VTOL.update
update(w, i) ==
    LET w0 == [w EXCEPT !.g.v[i].updates = @ + 1,
                        !.g.log = Append(@, <<"update", i>>)]
        w1 == IF w0.vtols[i].state_timer > 0
              THEN SetField(w0, i, "state_timer", w0.vtols[i].state_timer - 1)
              ELSE w0
        st == w1.vtols[i].state
        w2 == IF st = "taking_off" THEN UpdateTakingOff(w1, i)
              ELSE IF st = "landing" THEN UpdateLanding(w1, i)
              ELSE IF st = "hovering" THEN UpdateHovering(w1, i)
              ELSE IF st = "landed" THEN UpdateLanded(w1, i)
              ELSE IF st \in {"flying", "in_transit"} THEN update_movement(w1, i)
              ELSE w1
    IN [w2 EXCEPT !.vtols[i] = UpdateStatus(@)]

(***************************************************************************)
(* Simulation                                                              *)
(***************************************************************************)
\* faulty variant: the departure time is not looked at
can_depart_any_time(v, now) == v.status = "WAITING"

\* VTOL.can_depart
can_depart(v, now) == now >= v.departure_time /\ v.status = "WAITING"

\* VTOL.can_hover
can_hover(v) == v.hover_count < MaxHoverCount

\* VTOL.hover
hover(w, i) ==
    LET w1 == SetField(w, i, "hover_count", w.vtols[i].hover_count + 1)
    IN IF w1.vtols[i].state # "hovering" THEN start_hovering(w1, i) ELSE w1

\* VTOL.fly_to_next_vertiport
fly_to_next_vertiport(w, i, next_vertiport) ==
    IF next_vertiport \notin VertiportNames THEN w
    ELSE LET ok == set_destination_vertiport_ret(w, i, next_vertiport)
             w1 == set_destination_vertiport(w, i, next_vertiport)
         IN IF ok THEN SetField(w1, i, "status", "FLYING")
            ELSE IF w.vtols[i].final_destination # None
                    /\ next_vertiport = w.vtols[i].final_destination
                 THEN [w1 EXCEPT !.vtols[i].current_vertiport = next_vertiport,
                                 !.vtols[i].status = "LANDED",
                                 !.vtols[i].state = "landed"]
                 ELSE [w1 EXCEPT !.vtols[i].current_vertiport = next_vertiport,
                                 !.vtols[i].status = "FLYING",
                                 !.vtols[i].state = "flying"]

\* Simulation._process_planned_route_vtol
process_planned_route_vtol(w, i) ==
    LET v == w.vtols[i]
    IN IF v.state = "landed" /\ v.status # "FLYING"
       THEN IF advance_to_next_planned_destination_ret(w, i)
            THEN [advance_to_next_planned_destination(w, i) EXCEPT
                      !.vtols[i].status = "FLYING",
                      !.vtols[i].departure_time = w.now]
            ELSE advance_to_next_planned_destination(w, i)
       ELSE w

\* Simulation._process_simulation_vtol
process_simulation_vtol(w, i) ==
    LET v == w.vtols[i]
    IN IF v.status = "LANDED" THEN w
       ELSE IF can_depart(v, w.now)
       THEN IF v.journey_route # <<>>
            THEN IF v.current_vertiport \in Range(v.journey_route)
                 THEN LET current_index == IndexOf(v.journey_route, v.current_vertiport)
                      IN IF current_index < Len(v.journey_route)
                         THEN fly_to_next_vertiport(w, i, v.journey_route[current_index + 1])
                         ELSE w
                 ELSE fly_to_next_vertiport(w, i, v.journey_route[1])
            ELSE w
       ELSE IF (v.status = "WAITING" \/ v.state = "landed") /\ can_hover(v)
       THEN hover(w, i)
       ELSE w

\* Simulation.start_planned_routes
RECURSIVE start_planned_routes(_, _)
start_planned_routes(w, i) ==
    IF i > Len(w.vtols) THEN w
    ELSE LET v == w.vtols[i]
         IN start_planned_routes(
                IF v.planned_route # <<>> /\ v.is_circulating
                THEN IF advance_to_next_planned_destination_ret(w, i)
                     THEN SetField(advance_to_next_planned_destination(w, i),
                                   i, "status", "FLYING")
                     ELSE advance_to_next_planned_destination(w, i)
                ELSE w, i + 1)

\* the first loop of simulate_step (l.1429-1435)
RECURSIVE ProcessAll(_, _)
ProcessAll(w, i) ==
    IF i > Len(w.vtols) THEN w
    ELSE LET v == w.vtols[i]
             wl == [w EXCEPT !.g.v[i].processed = @ + 1,
                             !.g.log = Append(@, <<"process", i>>)]
         IN ProcessAll(IF v.planned_route # <<>> /\ v.is_circulating
                       THEN process_planned_route_vtol(wl, i)
                       ELSE process_simulation_vtol(wl, i), i + 1)

\* faulty variant: the update loop runs from the last created VTOL to the first
RECURSIVE UpdateAll_reversed(_, _)
UpdateAll_reversed(w, i) ==
    IF i > Len(w.vtols) THEN w
    ELSE update(UpdateAll_reversed(w, i + 1), i)

\* the second loop of simulate_step (l.1438-1440)
RECURSIVE UpdateAll(_, _)
UpdateAll(w, i) ==
    IF i > Len(w.vtols) THEN w
    ELSE UpdateAll(update(w, i), i + 1)

\* the available-capacity snapshot of simulate_step (l.1407-1426)
CapacitySnapshot ==
    LET counted == {i \in 1..Len(vtols) :
                       vtols[i].status = "WAITING" \/ vtols[i].state = "landed"}
        usage(k) == Cardinality({i \in counted : vtols[i].current_vertiport = k})
        used == {vtols[i].current_vertiport : i \in counted}
        max_capacity(k) == IF k \in VertiportNames THEN capacity[k] ELSE 1
    IN [k \in (DOMAIN vertiport_capacities) \cup VertiportNames \cup used |->
          IF k \in used THEN Max(0, max_capacity(k) - usage(k))
          ELSE IF k \in VertiportNames THEN capacity[k]
          ELSE vertiport_capacities[k]]

\* Simulation.simulate_step on the world
simulate_step(w) == UpdateAll(ProcessAll([w EXCEPT !.g.log = <<>>], 1), 1)

(***************************************************************************)
(* Creation of VTOLs.                                                      *)
(***************************************************************************)
\* the dispatch requests and route configurations offered to the simulation
DispatchRequests == {<<"A", "B", 0>>, <<"A", "C", 0>>, <<"A", "B", 20>>,
                     <<"A", "D", 0>>, <<"X", "B", 0>>, <<"A", "X", 0>>}
RouteChoices == {<<"A", "B">>, <<"C", "B">>, <<"B", "C", "B">>, <<"A">>, <<"A", "X">>}
RouteConfigs == {<<r>> : r \in RouteChoices}
                  \cup {<<r1, r2>> : r1 \in RouteChoices, r2 \in RouteChoices}
CapacityChoices == {1, 2}
RouteStops == {"A", "B", "C", "D"}
PlannedRoutes ==
    UNION {[1..n -> RouteStops] : n \in 2..MaxRouteLen}

\* Simulation.add_vtol: an exception of get_shortest_path is not caught,
add_vtol_raises(origin, destination) ==
    /\ origin \in VertiportNames
    /\ destination \in VertiportNames
    /\ get_shortest_path(origin, destination) = Raised("NodeNotFound")

\* faulty variant: the route between the endpoints is not asked for
add_vtol_ret_without_route(origin, destination) ==
    /\ origin \in VertiportNames
    /\ destination \in VertiportNames

\* the result ...
add_vtol_ret(origin, destination) ==
    /\ origin \in VertiportNames
    /\ destination \in VertiportNames
    /\ get_shortest_path(origin, destination) # <<>>

\* ... and the VTOL it creates
add_vtol_new(origin, destination, departure_time) ==
    LET route == get_shortest_path(origin, destination)
    IN [NewVTOL(Centre(origin)) EXCEPT
            !.departure_time = departure_time,
            !.current_vertiport = origin,
            !.status = "WAITING",
            !.state = "landed",
            !.final_destination = destination,
            !.journey_route = route,
            !.flight_path = route]

\* VTOL.set_planned_route
set_planned_route(v, route) ==
    LET v1 == [v EXCEPT !.planned_route = route,
                        !.is_circulating = TRUE,
                        !.current_route_index = 0,
                        !.reverse_direction = FALSE,
                        !.is_circular_route =
                            (Len(route) > 1 /\ route[1] = route[Len(route)])]
    IN IF route # <<>> /\ route[1] \in VertiportNames
       THEN [v1 EXCEPT !.current_vertiport = route[1],
                       !.xo = Centre(route[1]),
                       !.state = "landed",
                       !.status = "WAITING"]
       ELSE v1

\* the validation of one route of create_vtols_from_routes (l.1335-1343)
RouteAccepted(route) ==
    Len(route) >= 2 /\ \A k \in 1..Len(route) : route[k] \in VertiportNames

\* Simulation.create_vtols_from_routes has no return statement with a value:
\* a call evaluates to None whatever it skipped or created
create_vtols_from_routes_ret(config) == None

\* Simulation.create_vtols_from_routes: the VTOLs created, in order
RECURSIVE create_vtols_from_routes(_)
create_vtols_from_routes(config) ==
    IF config = <<>> THEN <<>>
    ELSE (IF RouteAccepted(Head(config))
          THEN <<set_planned_route(NewVTOL(Centre(Head(config)[1])), Head(config))>>
          ELSE <<>>) \o create_vtols_from_routes(Tail(config))

(***************************************************************************)
(* States and actions.                                                     *)
(***************************************************************************)
Call(op, i, p, ret) ==
    [op |-> op, vtol |-> i, vp |-> p, ret |-> ret,
     pre_queued |-> IF p \in VertiportNames THEN i \in Range(hovering_queue[p])
                    ELSE FALSE,
     pre_state |-> IF i \in 1..Len(vtols) THEN vtols[i].state ELSE None,
     pre_timer |-> IF i \in 1..Len(vtols) THEN vtols[i].state_timer ELSE 0,
     pre_flag |-> IF i \in 1..Len(vtols) THEN vtols[i].can_attempt_landing ELSE FALSE]

NoGhost == [v |-> <<>>, log |-> <<>>]

\* Simulation.__init__: no VTOL yet, every vertiport empty
Init ==
    /\ vtols = <<>>
    /\ occupied_slots = [p \in VertiportNames |-> <<>>]
    /\ hovering_queue = [p \in VertiportNames |-> <<>>]
    /\ passengers_waiting = [p \in VertiportNames |-> <<>>]
    /\ passengers_arrived = [p \in VertiportNames |-> <<>>]
    /\ \E c \in CapacityChoices : capacity = [p \in VertiportNames |-> c]
    /\ current_time = 0
    /\ vertiport_capacities = capacity
    /\ last = [op |-> "init", vtol |-> 0, vp |-> None, ret |-> FALSE,
               pre_queued |-> FALSE, pre_state |-> None, pre_timer |-> 0, pre_flag |-> FALSE]
    /\ ncalls = 0
    /\ driver = "simulation"
    /\ ghost = NoGhost
    /\ graph = Links

\* the set-up of the direct tests (test_hover_direct.py l.30-43,
\* test_capacity.py l.29-34): VTOLs built by hand, methods called directly
HarnessVTOLs ==
    <<[NewVTOL(Centre("B")) EXCEPT !.state = "landed", !.current_vertiport = "B"],
      [NewVTOL(Centre("A")) EXCEPT !.state = "flying", !.destination_vertiport = "B"],
      [NewVTOL(Centre("C")) EXCEPT !.state = "flying", !.destination_vertiport = "B"]>>

InitDirect ==
    /\ vtols = HarnessVTOLs
    /\ occupied_slots = [p \in VertiportNames |-> <<>>]
    /\ hovering_queue = [p \in VertiportNames |-> <<>>]
    /\ passengers_waiting = [p \in VertiportNames |-> <<>>]
    /\ passengers_arrived = [p \in VertiportNames |-> <<>>]
    /\ \E c \in CapacityChoices : capacity = [p \in VertiportNames |-> c]
    /\ current_time = 0
    /\ vertiport_capacities = capacity
    /\ last = [op |-> "init", vtol |-> 0, vp |-> None, ret |-> FALSE,
               pre_queued |-> FALSE, pre_state |-> None, pre_timer |-> 0, pre_flag |-> FALSE]
    /\ ncalls = 0
    /\ driver = "direct"
    /\ ghost = [v |-> [k \in 1..Len(HarnessVTOLs) |-> NewGhost], log |-> <<>>]
    /\ graph = Links

\* a simulation whose configuration is one planned route
InitRoute ==
    /\ graph = Links
    /\ \E r \in PlannedRoutes : vtols = create_vtols_from_routes(<<r>>)
    /\ occupied_slots = [p \in VertiportNames |-> <<>>]
    /\ hovering_queue = [p \in VertiportNames |-> <<>>]
    /\ passengers_waiting = [p \in VertiportNames |-> <<>>]
    /\ passengers_arrived = [p \in VertiportNames |-> <<>>]
    /\ capacity = [p \in VertiportNames |-> 1]
    /\ current_time = 0
    /\ vertiport_capacities = capacity
    /\ last = [op |-> "init", vtol |-> 0, vp |-> None, ret |-> FALSE,
               pre_queued |-> FALSE, pre_state |-> None, pre_timer |-> 0, pre_flag |-> FALSE]
    /\ ncalls = 0
    /\ driver = "routes"
    /\ ghost = [v |-> <<NewGhost>>, log |-> <<>>]

\* the same simulation, its VTOL asked for its next stop in the three ways
InitSelect ==
    /\ graph = Links
    /\ \E r \in PlannedRoutes : vtols = create_vtols_from_routes(<<r>>)
    /\ occupied_slots = [p \in VertiportNames |-> <<>>]
    /\ hovering_queue = [p \in VertiportNames |-> <<>>]
    /\ passengers_waiting = [p \in VertiportNames |-> <<>>]
    /\ passengers_arrived = [p \in VertiportNames |-> <<>>]
    /\ capacity = [p \in VertiportNames |-> 1]
    /\ current_time = 0
    /\ vertiport_capacities = capacity
    /\ last = [op |-> "init", vtol |-> 0, vp |-> None, ret |-> FALSE,
               pre_queued |-> FALSE, pre_state |-> None, pre_timer |-> 0, pre_flag |-> FALSE]
    /\ ncalls = 0
    /\ driver = "selection"
    /\ ghost = [v |-> <<NewGhost>>, log |-> <<>>]

\* a fresh simulation on one of the networks, for dispatched journeys
GraphChoices == {Links, Links \cup {<<"A", "D">>}}
EndpointNames == VertiportNames \cup {"X"}
DepartureTimes == {0, 1, 20}

InitJourney ==
    /\ graph \in GraphChoices
    /\ vtols = <<>>
    /\ occupied_slots = [p \in VertiportNames |-> <<>>]
    /\ hovering_queue = [p \in VertiportNames |-> <<>>]
    /\ passengers_waiting = [p \in VertiportNames |-> <<>>]
    /\ passengers_arrived = [p \in VertiportNames |-> <<>>]
    /\ capacity = [p \in VertiportNames |-> 1]
    /\ current_time = 0
    /\ vertiport_capacities = capacity
    /\ last = [op |-> "init", vtol |-> 0, vp |-> None, ret |-> FALSE,
               pre_queued |-> FALSE, pre_state |-> None, pre_timer |-> 0, pre_flag |-> FALSE]
    /\ ncalls = 0
    /\ driver = "dispatch"
    /\ ghost = NoGhost

\* a congested vertiport: B and D joined both ways, capacity 1, and three
\* VTOLs shuttling between them, created by create_vtols_from_routes
CongestedLinks == {<<"B", "D">>, <<"D", "B">>}
CongestedRoutes == <<<<"D", "B">>, <<"B", "D">>, <<"D", "B">>>>

InitCongested ==
    /\ graph = CongestedLinks
    /\ vtols = create_vtols_from_routes(CongestedRoutes)
    /\ occupied_slots = [p \in VertiportNames |-> <<>>]
    /\ hovering_queue = [p \in VertiportNames |-> <<>>]
    /\ passengers_waiting = [p \in VertiportNames |-> <<>>]
    /\ passengers_arrived = [p \in VertiportNames |-> <<>>]
    /\ capacity = [p \in VertiportNames |-> 1]
    /\ current_time = 0
    /\ vertiport_capacities = capacity
    /\ last = [op |-> "init", vtol |-> 0, vp |-> None, ret |-> FALSE,
               pre_queued |-> FALSE, pre_state |-> None, pre_timer |-> 0, pre_flag |-> FALSE]
    /\ ncalls = 0
    /\ driver = "congestion"
    /\ ghost = [v |-> [k \in 1..Len(CongestedRoutes) |-> NewGhost], log |-> <<>>]

\* one VTOL on the planned route A, B and passengers spawned at A
BoardingRoutes == <<<<"A", "B">>>>

InitBoarding ==
    /\ graph = Links
    /\ vtols = create_vtols_from_routes(BoardingRoutes)
    /\ occupied_slots = [p \in VertiportNames |-> <<>>]
    /\ hovering_queue = [p \in VertiportNames |-> <<>>]
    /\ passengers_waiting = [p \in VertiportNames |-> <<>>]
    /\ passengers_arrived = [p \in VertiportNames |-> <<>>]
    /\ capacity = [p \in VertiportNames |-> 1]
    /\ current_time = 0
    /\ vertiport_capacities = capacity
    /\ last = [op |-> "init", vtol |-> 0, vp |-> None, ret |-> FALSE,
               pre_queued |-> FALSE, pre_state |-> None, pre_timer |-> 0, pre_flag |-> FALSE]
    /\ ncalls = 0
    /\ driver = "boarding"
    /\ ghost = [v |-> <<NewGhost>>, log |-> <<>>]

\* two VTOLs on the same planned route A, B, one slot per vertiport, and a
\* crowd waiting at A: the VTOLs end their flights in the same tick
ContendedRoutes == <<<<"A", "B">>, <<"A", "B">>>>

InitContended ==
    /\ graph = Links
    /\ vtols = create_vtols_from_routes(ContendedRoutes)
    /\ occupied_slots = [p \in VertiportNames |-> <<>>]
    /\ hovering_queue = [p \in VertiportNames |-> <<>>]
    /\ passengers_waiting = [p \in VertiportNames |-> <<>>]
    /\ passengers_arrived = [p \in VertiportNames |-> <<>>]
    /\ capacity = [p \in VertiportNames |-> 1]
    /\ current_time = 0
    /\ vertiport_capacities = capacity
    /\ last = [op |-> "init", vtol |-> 0, vp |-> None, ret |-> FALSE,
               pre_queued |-> FALSE, pre_state |-> None, pre_timer |-> 0, pre_flag |-> FALSE]
    /\ ncalls = 0
    /\ driver = "contended"
    /\ ghost = [v |-> [k \in 1..Len(ContendedRoutes) |-> NewGhost], log |-> <<>>]

\* a fresh simulation that is given its VTOLs and handed to run_simulation
InitRun ==
    /\ graph = Links
    /\ vtols = <<>>
    /\ occupied_slots = [p \in VertiportNames |-> <<>>]
    /\ hovering_queue = [p \in VertiportNames |-> <<>>]
    /\ passengers_waiting = [p \in VertiportNames |-> <<>>]
    /\ passengers_arrived = [p \in VertiportNames |-> <<>>]
    /\ capacity = [p \in VertiportNames |-> 1]
    /\ current_time = 0
    /\ vertiport_capacities = capacity
    /\ last = [op |-> "init", vtol |-> 0, vp |-> None, ret |-> FALSE,
               pre_queued |-> FALSE, pre_state |-> None, pre_timer |-> 0, pre_flag |-> FALSE]
    /\ ncalls = 0
    /\ driver = "run"
    /\ ghost = NoGhost

\* a run that is never stopped: the clock is followed up to the horizon and
\* the history variables are not kept, the simulation itself goes on
InitUnending ==
    /\ graph = Links
    /\ vtols = <<>>
    /\ occupied_slots = [p \in VertiportNames |-> <<>>]
    /\ hovering_queue = [p \in VertiportNames |-> <<>>]
    /\ passengers_waiting = [p \in VertiportNames |-> <<>>]
    /\ passengers_arrived = [p \in VertiportNames |-> <<>>]
    /\ capacity = [p \in VertiportNames |-> 1]
    /\ current_time = 0
    /\ vertiport_capacities = capacity
    /\ last = [op |-> "init", vtol |-> 0, vp |-> None, ret |-> FALSE,
               pre_queued |-> FALSE, pre_state |-> None, pre_timer |-> 0, pre_flag |-> FALSE]
    /\ ncalls = 0
    /\ driver = "unending"
    /\ ghost = NoGhost

Commit(w) ==
    /\ vtols' = w.vtols
    /\ occupied_slots' = w.occupied_slots
    /\ hovering_queue' = w.hovering_queue
    /\ passengers_waiting' = w.passengers_waiting
    /\ passengers_arrived' = w.passengers_arrived
    /\ ghost' = IF driver = "unending" THEN ghost ELSE w.g

\* the record of a call on the simulation or its network
Logged(op, origin, destination, ret, raised) ==
    <<[op |-> op, origin |-> origin, destination |-> destination,
       ret |-> ret, raised |-> raised]>>

AddVtol(origin, destination, departure_time) ==
    /\ \/ driver = "simulation" /\ Len(vtols) < MaxVtols
       \/ driver = "dispatch" /\ vtols = <<>>
       \/ driver = "unending" /\ Len(vtols) < MaxFairVtols
       \/ driver = "run" /\ Len(vtols) < MaxRunVtols
    /\ current_time = 0
    /\ last' = Call("add_vtol", 0, None, add_vtol_ret(origin, destination))
    /\ LET log == Logged("add_vtol", origin, destination,
                         add_vtol_ret(origin, destination),
                         add_vtol_raises(origin, destination))
       IN IF add_vtol_ret(origin, destination) /\ ~add_vtol_raises(origin, destination)
          THEN /\ vtols' = Append(vtols, add_vtol_new(origin, destination, departure_time))
               /\ ghost' = [ghost EXCEPT !.v = Append(@, NewGhost), !.log = log]
          ELSE /\ vtols' = vtols
               /\ ghost' = [ghost EXCEPT !.log = log]
    /\ UNCHANGED <<occupied_slots, hovering_queue, passengers_waiting,
                   passengers_arrived, capacity, current_time,
                   vertiport_capacities, ncalls, driver, graph>>

CreateVtolsFromRoutes(config) ==
    /\ \/ driver = "simulation" /\ Len(vtols) + Len(config) <= MaxVtols
       \/ driver = "unending" /\ Len(vtols) + Len(config) <= MaxFairVtols
       \/ driver = "run" /\ Len(vtols) + Len(config) <= MaxRunVtols
    /\ current_time = 0
    /\ LET created == create_vtols_from_routes(config)
       IN /\ vtols' = vtols \o created
          /\ ghost' = [ghost EXCEPT
                          !.v = @ \o [k \in 1..Len(created) |-> NewGhost],
                          !.log = Logged("create_vtols_from_routes", config, None,
                                         create_vtols_from_routes_ret(config), FALSE)]
          /\ last' = Call("create_vtols_from_routes", 0, None,
                          create_vtols_from_routes_ret(config))
    /\ UNCHANGED <<occupied_slots, hovering_queue, passengers_waiting,
                   passengers_arrived, capacity, current_time,
                   vertiport_capacities, ncalls, driver, graph>>

\* the number of steps a run is followed for
Horizon ==
    CASE driver = "congestion" -> MaxLongTime
      [] driver = "boarding" -> MaxShortTime
      [] OTHER -> MaxTime

\* the test that ends the loop of run_simulation (l.1479-1480)
AllLanded ==
    \A i \in 1..Len(vtols) : ~vtols[i].is_circulating => vtols[i].status = "LANDED"

SimulateStep ==
    /\ driver = "unending" \/ current_time < Horizon
    /\ driver = "run" => (current_time = 0 \/ ~AllLanded)
    /\ driver = "direct" => ncalls < MaxOps
    /\ current_time' = IF current_time < Horizon THEN current_time + 1 ELSE current_time
    /\ vertiport_capacities' = CapacitySnapshot
    /\ Commit(simulate_step(World(IF current_time < Horizon THEN current_time + 1
                                                              ELSE current_time)))
    /\ last' = Call("simulate_step", 0, None, TRUE)
    /\ ncalls' = IF driver = "direct" THEN ncalls + 1
                 ELSE IF driver = "unending" THEN 1 - ncalls
                 ELSE ncalls
    /\ UNCHANGED <<capacity, driver, graph>>

Direct(op, i, p, ret, w) ==
    /\ driver = "direct"
    /\ ncalls < MaxOps
    /\ ncalls' = ncalls + 1
    /\ last' = Call(op, i, p, ret)
    /\ Commit(w)
    /\ UNCHANGED <<capacity, current_time, vertiport_capacities, driver, graph>>

RequestLanding(p, i) ==
    Direct("request_landing", i, p, request_landing_ret(World(current_time), p, i),
           request_landing(World(current_time), p, i))

LandVtol(p, i) ==
    Direct("land_vtol", i, p, land_vtol_ret(World(current_time), p, i),
           land_vtol(World(current_time), p, i))

TakeoffVtol(p, i) ==
    Direct("takeoff_vtol", i, p, takeoff_vtol_ret(World(current_time), p, i),
           takeoff_vtol(World(current_time), p, i))

VtolUpdate(i) ==
    Direct("update", i, None, TRUE, update(World(current_time), i))

\* Network.get_shortest_path asked of the network of a fresh simulation
GetShortestPath(origin, destination) ==
    /\ driver = "dispatch"
    /\ vtols = <<>>
    /\ current_time = 0
    /\ last' = Call("get_shortest_path", 0, None, TRUE)
    /\ LET r == get_shortest_path(origin, destination)
       IN ghost' = [ghost EXCEPT !.log =
                       Logged("get_shortest_path", origin, destination,
                              IF r \in {Raised("NodeNotFound"), Raised("NetworkXNoPath")}
                              THEN <<>> ELSE r,
                              r \in {Raised("NodeNotFound"), Raised("NetworkXNoPath")})]
    /\ UNCHANGED <<vtols, occupied_slots, hovering_queue, passengers_waiting,
                   passengers_arrived, capacity, current_time,
                   vertiport_capacities, ncalls, driver, graph>>

\* Person.__init__; id stands for the identity of the object
NewPerson(origin, destination) ==
    [id |-> <<origin, current_time, Len(passengers_waiting[origin])>>,
     origin_vertiport |-> origin,
     destination_vertiport |-> destination,
     state |-> "waiting"]

\* the frames in which passengers are spawned and in which the routes are
\* started again, and the vertiports the passengers travel between
SpawnTicks == {0, 50}
CrowdTicks == {0}
RestartTicks == {35}
SpawnOrigins == {"A"}
SpawnDestinations == {"B", "C"}

\* spawn_passenger_at_vertiport
SpawnPassenger(origin, destination) ==
    /\ \/ /\ driver = "boarding"
          /\ current_time \in SpawnTicks
          /\ Len(passengers_waiting[origin]) < MaxWaiting
       \/ /\ driver = "contended"
          /\ current_time \in CrowdTicks
          /\ Len(passengers_waiting[origin]) < MaxCrowd
    /\ last' = Call("spawn_passenger_at_vertiport", 0, origin, TRUE)
    /\ Commit(add_passenger(World(current_time), origin, NewPerson(origin, destination)))
    /\ UNCHANGED <<capacity, current_time, vertiport_capacities, ncalls, driver, graph>>

StartPlannedRoutes ==
    /\ \/ driver \in {"routes", "selection"} /\ ncalls < MaxAdvances
       \/ /\ driver \in {"boarding", "contended"}
          /\ ncalls < MaxRestarts
          /\ current_time \in RestartTicks
    /\ ncalls' = ncalls + 1
    /\ last' = Call("start_planned_routes", 0, None, TRUE)
    /\ Commit(start_planned_routes(World(current_time), 1))
    /\ UNCHANGED <<capacity, current_time, vertiport_capacities, driver, graph>>

\* VTOL.get_next_planned_destination called on the VTOL of the route
GetNextPlannedDestination(i) ==
    /\ driver = "selection"
    /\ ncalls < MaxAdvances
    /\ ncalls' = ncalls + 1
    /\ last' = Call("get_next_planned_destination", i, None,
                    get_next_planned_destination_ret(World(current_time), i))
    /\ Commit(get_next_planned_destination(World(current_time), i))
    /\ UNCHANGED <<capacity, current_time, vertiport_capacities, driver, graph>>

\* VTOL._set_next_planned_route_destination called on the VTOL of the route
SetNextPlannedRouteDestination(i) ==
    /\ driver = "selection"
    /\ ncalls < MaxAdvances
    /\ ncalls' = ncalls + 1
    /\ last' = Call("_set_next_planned_route_destination", i, None,
                    set_next_planned_route_destination_ret(World(current_time), i))
    /\ Commit(set_next_planned_route_destination(World(current_time), i))
    /\ UNCHANGED <<capacity, current_time, vertiport_capacities, driver, graph>>

DirectVertiports == {"A", "B"}

Next ==
    \/ \E r \in DispatchRequests : AddVtol(r[1], r[2], r[3])
    \/ \E config \in RouteConfigs : CreateVtolsFromRoutes(config)
    \/ SimulateStep

NextDirect ==
    \/ \E p \in DirectVertiports, i \in 1..Len(vtols) : RequestLanding(p, i)
    \/ \E p \in DirectVertiports, i \in 1..Len(vtols) : LandVtol(p, i)
    \/ \E p \in DirectVertiports, i \in 1..Len(vtols) : TakeoffVtol(p, i)
    \/ \E i \in 1..Len(vtols) : VtolUpdate(i)
    \/ SimulateStep

NextRoute == StartPlannedRoutes

NextJourney ==
    \/ \E origin \in EndpointNames, destination \in EndpointNames :
           GetShortestPath(origin, destination)
    \/ \E origin \in EndpointNames, destination \in EndpointNames,
          departure_time \in DepartureTimes :
           AddVtol(origin, destination, departure_time)
    \/ SimulateStep

Spec == Init /\ [][Next]_vars

SpecRoute == InitRoute /\ [][NextRoute]_vars

NextSelect ==
    \/ \E i \in 1..Len(vtols) : GetNextPlannedDestination(i)
    \/ \E i \in 1..Len(vtols) : SetNextPlannedRouteDestination(i)
    \/ StartPlannedRoutes

SpecSelect == InitSelect /\ [][NextSelect]_vars

SpecJourney == InitJourney /\ [][NextJourney]_vars

NextCongested == SimulateStep

NextBoarding ==
    \/ \E origin \in SpawnOrigins, destination \in SpawnDestinations :
           SpawnPassenger(origin, destination)
    \/ StartPlannedRoutes
    \/ SimulateStep

SpecCongested == InitCongested /\ [][NextCongested]_vars

SpecBoarding == InitBoarding /\ [][NextBoarding]_vars

NextContended ==
    \/ \E origin \in SpawnOrigins, destination \in SpawnDestinations :
           SpawnPassenger(origin, destination)
    \/ StartPlannedRoutes
    \/ SimulateStep

SpecContended == InitContended /\ [][NextContended]_vars

UnendingRequests == {<<"A", "B", 0>>, <<"A", "A", 0>>}
UnendingConfigs == {<<<<"C", "D">>>>}

NextUnending ==
    \/ \E r \in UnendingRequests : AddVtol(r[1], r[2], r[3])
    \/ \E config \in UnendingConfigs : CreateVtolsFromRoutes(config)
    \/ SimulateStep

RunRequests == {<<"A", "B", 0>>, <<"A", "C", 0>>, <<"C", "A", 0>>, <<"A", "A", 0>>,
                <<"A", "B", 20>>, <<"A", "C", 20>>}
RunConfigs == {<<<<"C", "D">>>>}

\* the VTOLs are added, then run_simulation steps until its test stops it
NextRun ==
    \/ \E r \in RunRequests : AddVtol(r[1], r[2], r[3])
    \/ \E config \in RunConfigs : CreateVtolsFromRoutes(config)
    \/ SimulateStep

SpecRun == InitRun /\ [][NextRun]_vars

\* a frame of the main loop: simulate_step is the only step of an unending
\* run that changes ncalls, the parity of the frames
Frame == ncalls' = 1 - ncalls

\* the main loop calls simulate_step in every frame, for ever
SpecUnending == InitUnending /\ [][NextUnending]_vars /\ WF_ncalls(Frame)

SpecDirect == InitDirect /\ [][NextDirect]_vars

TypeOK ==
    /\ current_time \in 0..Horizon
    /\ \A p \in VertiportNames : capacity[p] \in CapacityChoices

(***************************************************************************)
(* Properties.                                                             *)
(***************************************************************************)
Count(s, x) == Cardinality({k \in 1..Len(s) : s[k] = x})

NotEqual(s, x) == SelectSeq(s, LAMBDA y : y # x)

NumVtols == Len(vtols)

\* a step that is the direct call of the named method
DirectCall(op) == last'.op = op /\ ncalls' = ncalls + 1

\* C1: whatever sequence of request_landing, land_vtol, takeoff_vtol and
\* simulate_step is run, no vertiport holds more VTOLs in occupied_slots
\* than its capacity.
C1_CapacityRespected ==
    \A p \in VertiportNames : Len(occupied_slots[p]) <= capacity[p]

\* a land_vtol was refused at a vertiport that is exactly full
C1_Witness ==
    /\ last.op = "land_vtol" /\ ~last.ret
    /\ Len(occupied_slots[last.vp]) = capacity[last.vp]

\* C2: no VTOL is in occupied_slots and in hovering_queue of the same
\* vertiport at the same time.
C2_NotOccupiedAndHovering ==
    \A p \in VertiportNames :
        Range(occupied_slots[p]) \cap Range(hovering_queue[p]) = {}

\* a VTOL that was refused on arrival (and queued) now occupies a slot there
C2_Witness ==
    \E p \in VertiportNames : \E i \in Range(occupied_slots[p]) :
        /\ ghost.v[i].arrival_vp = p
        /\ ~ghost.v[i].arrival_ok
        /\ ghost.v[i].commit_ok
        /\ ghost.v[i].commit_tick > ghost.v[i].arrival_tick

\* C3: land_vtol returns true exactly when occupied_slots is below capacity
\* at the call; on true the VTOL is appended to occupied_slots and is no
\* longer in hovering_queue (the other waiters keep their order); on false
\* both lists are unchanged.
C3_LandVtolContract ==
    [][DirectCall("land_vtol") =>
        LET p == last'.vp
            i == last'.vtol
        IN /\ last'.ret = (Len(occupied_slots[p]) < capacity[p])
           /\ last'.ret =>
                /\ occupied_slots' = [occupied_slots EXCEPT ![p] = Append(@, i)]
                /\ hovering_queue' = [hovering_queue EXCEPT ![p] = NotEqual(@, i)]
           /\ ~last'.ret =>
                /\ occupied_slots' = occupied_slots
                /\ hovering_queue' = hovering_queue]_vars

\* a queued VTOL has landed, while another VTOL still waits in the queue
C3_Witness ==
    /\ last.op = "land_vtol" /\ last.ret /\ last.pre_queued
    /\ last.vtol \in Range(occupied_slots[last.vp])
    /\ last.vtol \notin Range(hovering_queue[last.vp])

\* C4: request_landing at a vertiport with a free slot returns true and
\* changes neither occupied_slots nor hovering_queue: nothing is reserved.
C4_RequestLandingFree ==
    [][DirectCall("request_landing")
         /\ Len(occupied_slots[last'.vp]) < capacity[last'.vp] =>
           /\ last'.ret
           /\ occupied_slots' = occupied_slots
           /\ hovering_queue' = hovering_queue]_vars

\* a request was granted and the requester holds no slot
C4_Witness ==
    /\ last.op = "request_landing" /\ last.ret
    /\ last.vtol \notin Range(occupied_slots[last.vp])
    /\ occupied_slots[last.vp] # <<>>

\* C5: request_landing at a full vertiport returns false; the VTOL is then
\* in hovering_queue exactly once, appended at the tail on its first
\* refused request and left where it is on a repeated one.
C5_RequestLandingFull ==
    [][DirectCall("request_landing")
         /\ Len(occupied_slots[last'.vp]) >= capacity[last'.vp] =>
           LET p == last'.vp
               i == last'.vtol
           IN /\ ~last'.ret
              /\ occupied_slots' = occupied_slots
              /\ hovering_queue' =
                   [hovering_queue EXCEPT
                      ![p] = IF i \in Range(@) THEN @ ELSE Append(@, i)]
              /\ Count(hovering_queue'[p], i) = 1]_vars

\* a repeated refused request by the VTOL at the head of a queue of two
C5_Witness ==
    /\ last.op = "request_landing" /\ ~last.ret /\ last.pre_queued
    /\ Len(hovering_queue[last.vp]) >= 2
    /\ hovering_queue[last.vp][1] = last.vtol

\* C6: takeoff_vtol returns true exactly when the VTOL is in occupied_slots
\* and then removes it (one entry of the multiset); otherwise it returns
\* false and changes neither list nor any VTOL's wake flag.
C6_TakeoffContract ==
    [][DirectCall("takeoff_vtol") =>
        LET p == last'.vp
            i == last'.vtol
        IN /\ last'.ret = (i \in Range(occupied_slots[p]))
           /\ last'.ret =>
                /\ Len(occupied_slots'[p]) = Len(occupied_slots[p]) - 1
                /\ Count(occupied_slots'[p], i) = Count(occupied_slots[p], i) - 1
                /\ \A k \in 1..NumVtols : k # i =>
                      Count(occupied_slots'[p], k) = Count(occupied_slots[p], k)
           /\ ~last'.ret =>
                /\ occupied_slots' = occupied_slots
                /\ hovering_queue' = hovering_queue
                /\ \A k \in 1..NumVtols :
                      vtols'[k].can_attempt_landing = vtols[k].can_attempt_landing]_vars

\* a failed takeoff at a vertiport where a VTOL hovers with its flag down
C6_Witness ==
    /\ last.op = "takeoff_vtol" /\ ~last.ret
    /\ \E k \in Range(hovering_queue[last.vp]) :
          vtols[k].state = "hovering" /\ ~vtols[k].can_attempt_landing

\* VTOLs a and b ended their flights to p in the same tick t, p being a
\* capacity-1 vertiport that was empty then
SameTickArrival(a, b, p, t) ==
    /\ a # b /\ t > 0
    /\ capacity[p] = 1
    /\ ghost.v[a].arrival_tick = t /\ ghost.v[b].arrival_tick = t
    /\ ghost.v[a].arrival_vp = p /\ ghost.v[b].arrival_vp = p
    /\ ghost.v[a].arrival_free = 1 /\ ghost.v[b].arrival_free = 1

C8_ThreeAttempts ==
    \A p \in VertiportNames :
        (/\ NumVtols = 3
         /\ SameTickArrival(1, 2, p, current_time - LandingTime)
         /\ SameTickArrival(2, 3, p, current_time - LandingTime))
        => /\ occupied_slots[p] = <<1>>
           /\ hovering_queue[p] = <<2, 3>>

\* C9: a successful takeoff_vtol raises the wake flag of the head of the
\* hovering_queue; no vertiport method lowers a raised flag; and the update
\* of a hovering VTOL whose flag is raised re-evaluates can_land whatever
\* its timer is: it enters landing if its destination has a free slot, and
\* otherwise stays hovering with the flag lowered.
C9_WakeOnTakeoff ==
    [][/\ (DirectCall("takeoff_vtol") /\ last'.ret
             /\ hovering_queue[last'.vp] # <<>>)
          => vtols'[Head(hovering_queue[last'.vp])].can_attempt_landing
       /\ (DirectCall("takeoff_vtol") \/ DirectCall("land_vtol")
             \/ DirectCall("request_landing"))
          => \A k \in 1..NumVtols :
                vtols[k].can_attempt_landing => vtols'[k].can_attempt_landing
       /\ (DirectCall("update")
             /\ vtols[last'.vtol].state = "hovering"
             /\ vtols[last'.vtol].can_attempt_landing
             /\ vtols[last'.vtol].destination_vertiport # None)
          => LET i == last'.vtol
                 d == vtols[i].destination_vertiport
             IN IF Len(occupied_slots[d]) < capacity[d]
                THEN vtols'[i].state = "landing"
                ELSE /\ vtols'[i].state = "hovering"
                     /\ ~vtols'[i].can_attempt_landing]_vars

\* a queued hovering VTOL, woken with its timer still running, is landing
C9_Witness ==
    /\ last.op = "update"
    /\ last.pre_state = "hovering" /\ last.pre_flag /\ last.pre_timer > 1
    /\ vtols[last.vtol].state = "landing"
    /\ last.vtol \in Range(hovering_queue[vtols[last.vtol].destination_vertiport])

\* the two loops of a tick, each over the VTOLs in creation order
TickLog(n) ==
    [k \in 1..(2 * n) |-> IF k <= n THEN <<"process", k>> ELSE <<"update", k - n>>]

\* C10: a tick processes and then updates every VTOL once, in creation
\* order; of two VTOLs that commit land_vtol at the same vertiport in the
\* same tick, the earlier created finding one free slot, the earlier
\* created gets it and the later created is refused (no VTOL having taken
\* off from that vertiport in the tick).
C10_CreationOrder ==
    /\ current_time > 0 =>
          /\ ghost.log = TickLog(NumVtols)
          /\ \A i \in 1..NumVtols :
                ghost.v[i].updates = current_time /\ ghost.v[i].processed = current_time
    /\ \A a, b \in 1..NumVtols :
          (/\ a < b
           /\ ghost.v[a].commit_tick = current_time
           /\ ghost.v[b].commit_tick = current_time
           /\ current_time > 0
           /\ ghost.v[a].commit_vp = ghost.v[b].commit_vp
           /\ ghost.v[a].commit_free = 1
           /\ \A k \in 1..NumVtols :
                 ghost.v[k].left[ghost.v[a].commit_vp] # current_time)
          => ghost.v[a].commit_ok /\ ~ghost.v[b].commit_ok

\* two VTOLs committed for one free slot in this tick
C10_Witness ==
    \E a, b \in 1..NumVtols :
        /\ a < b /\ current_time > 0
        /\ ghost.v[a].commit_tick = current_time
        /\ ghost.v[b].commit_tick = current_time
        /\ ghost.v[a].commit_vp = ghost.v[b].commit_vp
        /\ ghost.v[a].commit_free = 1
        /\ ghost.v[a].commit_ok /\ ~ghost.v[b].commit_ok

\* the index of the stop reached after k advances along a ping-pong route
\* of n stops that starts at index 0: 0, 1, ..., n-1, n-2, ..., 0, 1, ...
PingPongIndex(n, k) ==
    LET m == k % (2 * (n - 1))
    IN IF m <= n - 1 THEN m ELSE (2 * (n - 1)) - m

\* C11: on a ping-pong planned route R of N >= 2 stops, the k-th call of
\* advance_to_next_planned_destination selects the stop at the k-th place
\* of R[0], R[1], ..., R[N-1], R[N-2], ..., R[0], R[1], ... and leaves the
\* route index there; the index stays in 0..N-1, the selections repeat
\* with period 2(N-1), and the stop selected after R[N-1] is R[N-2].
C11_PingPongOrder ==
    \A i \in 1..NumVtols :
        LET R == vtols[i].planned_route
            N == Len(R)
            sel == ghost.v[i].selected
        IN (N >= 2 /\ R[1] # R[N]) =>
             /\ Len(sel) = ghost.v[i].advances
             /\ \A k \in 1..Len(sel) : sel[k] = R[PingPongIndex(N, k) + 1]
             /\ vtols[i].current_route_index = PingPongIndex(N, Len(sel))
             /\ vtols[i].current_route_index \in 0..(N - 1)
             /\ \A k \in 1..Len(sel) :
                   k + (2 * (N - 1)) <= Len(sel) => sel[k + (2 * (N - 1))] = sel[k]
             /\ \A k \in 1..(Len(sel) - 1) :
                   (PingPongIndex(N, k) = N - 1 /\ N >= 2)
                      => sel[k + 1] = R[N - 1]

\* a route of three different stops has been run forth, back and forth again
C11_Witness ==
    \E i \in 1..NumVtols :
        LET R == vtols[i].planned_route
        IN /\ Len(R) = 3 /\ Cardinality(Range(R)) = 3
           /\ ghost.v[i].selected = <<R[2], R[3], R[2], R[1], R[2], R[3]>>

\* C12: on a circular planned route of N stops every advance moves the
\* route index from i to (i + 1) mod N, so the index is the number of
\* advances modulo N and N advances bring it back to where it started.
C12_CircularIndex ==
    \A i \in 1..NumVtols :
        LET R == vtols[i].planned_route
            N == Len(R)
        IN (N >= 2 /\ R[1] = R[N]) =>
             /\ vtols[i].current_route_index = ghost.v[i].advances % N
             /\ \A k \in 1..Len(ghost.v[i].selected) :
                   ghost.v[i].selected[k] = R[(k % N) + 1]

\* a circular route of four stops has been advanced four times
C12_Witness ==
    \E i \in 1..NumVtols :
        LET R == vtols[i].planned_route
        IN /\ Len(R) = 4 /\ R[1] = R[4] /\ R[2] # R[1]
           /\ ghost.v[i].advances = 4
           /\ vtols[i].current_route_index = 0

\* the vertiports reached from origin over at most k directed edges of the
\* graph, each with the weight of a walk that reaches it
RECURSIVE Reach(_, _)
Reach(origin, k) ==
    IF k = 0 THEN {<<origin, 0>>}
    ELSE LET prev == Reach(origin, k - 1)
         IN prev \cup UNION {{<<e[2], pw[2] + Weight(e[1], e[2])>> :
                                 e \in {f \in graph : f[1] = pw[1]}} : pw \in prev}

Reachable(origin, destination) ==
    \E pw \in Reach(origin, Cardinality(GraphNodes) - 1) : pw[1] = destination

Distance(origin, destination) ==
    LET ws == {pw[2] : pw \in {x \in Reach(origin, Cardinality(GraphNodes) - 1) :
                                    x[1] = destination}}
    IN CHOOSE d \in ws : \A x \in ws : d <= x

\* C13: get_shortest_path raises nothing; it returns the empty list when an
\* endpoint is not a vertiport or the destination cannot be reached over
\* the directed edges; otherwise the list starts at the origin, ends at the
\* destination, follows an edge of the graph at every hop and no walk
\* between the two weighs less.
C13_ShortestPath ==
    last.op = "get_shortest_path" =>
        LET q == ghost.log[1]
            path == q.ret
            known == q.origin \in VertiportNames /\ q.destination \in VertiportNames
        IN /\ ~q.raised
           /\ (~known \/ ~Reachable(q.origin, q.destination)) => path = <<>>
           /\ (known /\ Reachable(q.origin, q.destination)) =>
                 /\ path # <<>>
                 /\ path[1] = q.origin
                 /\ path[Len(path)] = q.destination
                 /\ \A k \in 1..(Len(path) - 1) : <<path[k], path[k + 1]>> \in graph
                 /\ PathWeight(path) = Distance(q.origin, q.destination)

\* the lighter of two routes from A to C was returned
C13_Witness ==
    /\ last.op = "get_shortest_path"
    /\ <<"A", "D">> \in graph
    /\ ghost.log[1].origin = "A" /\ ghost.log[1].destination = "C"
    /\ ghost.log[1].ret = <<"A", "B", "C">>

\* C14: add_vtol raises nothing; it returns false and leaves the list of
\* VTOLs as it was when the origin or the destination is not a vertiport or
\* no path leads from the one to the other; otherwise it returns true and
\* appends exactly one VTOL.
C14_AddVtolContract ==
    [][last'.op = "add_vtol" =>
        LET q == ghost'.log[1]
            valid == /\ q.origin \in VertiportNames
                     /\ q.destination \in VertiportNames
                     /\ Reachable(q.origin, q.destination)
        IN /\ ~q.raised
           /\ q.ret = valid
           /\ valid => /\ Len(vtols') = Len(vtols) + 1
                       /\ SubSeq(vtols', 1, Len(vtols)) = vtols
                       /\ vtols'[Len(vtols')].current_vertiport = q.origin
                       /\ vtols'[Len(vtols')].final_destination = q.destination
           /\ ~valid => vtols' = vtols]_vars

\* a dispatch between two vertiports that no path joins was refused, the
\* VTOLs created before it being kept
C14_Witness ==
    /\ last.op = "add_vtol" /\ ~last.ret
    /\ Len(vtols) >= 1
    /\ ghost.log[1].origin \in VertiportNames
    /\ ghost.log[1].destination \in VertiportNames

\* the planned routes of a sequence of VTOLs
RoutesOf(vs) == [k \in 1..Len(vs) |-> vs[k].planned_route]

\* C15: create_vtols_from_routes creates no VTOL for a route of fewer than
\* two stops or with an unknown vertiport, creates the VTOLs of all the
\* other routes of the configuration, and its result is a failure when it
\* rejected a route.
C15_RoutesCreation ==
    [][last'.op = "create_vtols_from_routes" =>
        LET config == ghost'.log[1].origin
            result == ghost'.log[1].ret
            valid(r) == Len(r) >= 2 /\ \A k \in 1..Len(r) : r[k] \in VertiportNames
        IN /\ SubSeq(vtols', 1, Len(vtols)) = vtols
           /\ RoutesOf(SubSeq(vtols', Len(vtols) + 1, Len(vtols'))) = SelectSeq(config, valid)
           /\ (\E k \in 1..Len(config) : ~valid(config[k]))
                 => (result # None /\ result = FALSE)]_vars

\* VTOL i is a one-shot journey (created by add_vtol)
OneShot(i) == ~vtols[i].is_circulating /\ vtols[i].final_destination # None

\* ticks within which an unhindered journey along its route is over: for
\* every leg the tick of the decision, the take-off, the landing and the
\* tick of the arrival, and the flight over the length of the route
JourneyTicks(v) ==
    v.departure_time
      + ((Len(v.journey_route) - 1) * (TakeoffTime + LandingTime + 2))
      + (PathWeight(v.journey_route) \div VtolSpeed) + 2

\* C16: a one-shot journey that is alone in the simulation never hovers
\* (hover_count stays 0, the state is never hovering), whatever the length
\* of its path and its departure time, and once the time its legs take has
\* passed it is landed at its final destination.
C16_UncontendedJourney ==
    (NumVtols = 1 /\ OneShot(1)) =>
        /\ vtols[1].hover_count = 0
        /\ vtols[1].state # "hovering"
        /\ current_time >= JourneyTicks(vtols[1]) =>
              /\ vtols[1].state = "landed"
              /\ vtols[1].current_vertiport = vtols[1].final_destination

\* C17: a landing marks a one-shot VTOL complete (clean) only if the
\* vertiport it has landed at is its final_destination; a landing at an
\* intermediate vertiport of its journey leaves clean false.
C17_CompleteOnlyAtFinal ==
    [][\A i \in 1..NumVtols :
          (/\ ~vtols[i].is_circulating /\ vtols[i].final_destination # None
           /\ vtols[i].state = "landing" /\ vtols'[i].state = "landed")
          => (vtols'[i].clean =>
                 vtols'[i].current_vertiport = vtols'[i].final_destination)]_vars

\* VTOL i follows a planned route
PlannedRoute(i) == vtols[i].is_circulating /\ vtols[i].planned_route # <<>>

\* C18: a step marks a planned-route VTOL for removal (clean) only if it
\* leaves its hover_count above max_hover_count: the hover-abort safeguard
\* is the only thing that marks it, no landing, dwell or forced advance
\* does.
C18_OnlyAbortMarksPlanned ==
    [][\A i \in 1..NumVtols :
          (PlannedRoute(i) /\ ~vtols[i].clean /\ vtols'[i].clean)
          => /\ vtols'[i].hover_count > MaxHoverCount
             /\ vtols'[i].state = "hovering"]_vars

\* a planned-route VTOL was refused sixteen times and is marked, the
\* planned-route VTOLs that landed in the meantime are not
C18_Witness ==
    /\ PlannedRoute(3) /\ vtols[3].clean /\ vtols[3].hover_count = MaxHoverCount + 1
    /\ PlannedRoute(1) /\ ~vtols[1].clean /\ ghost.v[1].commit_ok

BoundFor(s, d) == SelectSeq(s, LAMBDA q : q.destination_vertiport = d)

\* C20: a VTOL that takes off from vertiport p for destination d boards
\* exactly min(free seats, passengers waiting at p for d) passengers, the
\* first ones of the waiting list bound for d, in their order; every other
\* passenger, bound for d or elsewhere, stays waiting at p in the order
\* they had.
C20_BoardingAtTakeoff ==
    [][\A i \in 1..NumVtols :
          (/\ vtols[i].state = "landed" /\ vtols'[i].state = "taking_off"
           /\ vtols[i].current_vertiport # None)
          => LET p == vtols[i].current_vertiport
                 d == vtols'[i].destination_vertiport
                 free == MaxPassengers - Len(vtols[i].onboard_passengers)
                 bound == BoundFor(passengers_waiting[p], d)
                 n == Min(free, Len(bound))
                 boarded == SubSeq(bound, 1, n)
                 ids == {boarded[k].id : k \in 1..n}
             IN /\ vtols'[i].onboard_passengers
                      = vtols[i].onboard_passengers \o SetFlying(boarded)
                /\ passengers_waiting'[p]
                      = SelectSeq(passengers_waiting[p], LAMBDA q : q.id \notin ids)
                /\ Len(passengers_waiting'[p]) = Len(passengers_waiting[p]) - n]_vars

\* the VTOL has just taken off from A for B with two passengers already on
\* board and three waiting for B: the first two of them boarded and the
\* third is still waiting
C20_Witness ==
    /\ vtols[1].state = "taking_off" /\ vtols[1].destination_vertiport = "B"
    /\ Len(vtols[1].onboard_passengers) = MaxPassengers
    /\ vtols[1].onboard_passengers[1].id = <<"A", 0, 0>>
    /\ vtols[1].onboard_passengers[2].id = <<"A", 0, 1>>
    /\ vtols[1].onboard_passengers[3].id = <<"A", 50, 0>>
    /\ vtols[1].onboard_passengers[4].id = <<"A", 50, 1>>
    /\ Len(passengers_waiting["A"]) = 1
    /\ passengers_waiting["A"][1].destination_vertiport = "B"
    /\ passengers_waiting["A"][1].id = <<"A", 50, 2>>

\* C21: in every reachable state no VTOL carries more passengers than its
\* max_passengers (4).
C21_SeatsBounded ==
    \A i \in 1..NumVtols : Len(vtols[i].onboard_passengers) <= MaxPassengers

\* a VTOL is full while a passenger for its destination was left waiting at
\* the vertiport it took off from
C21_Witness ==
    /\ vtols[1].state = "taking_off"
    /\ Len(vtols[1].onboard_passengers) = MaxPassengers
    /\ \E k \in 1..Len(passengers_waiting["A"]) :
          passengers_waiting["A"][k].destination_vertiport
             = vtols[1].destination_vertiport

\* C22: in every reachable state the hover_count of every VTOL is at most
\* max_hover_count (15), the threshold of the hover-abort safeguard.
C22_HoverCountBounded ==
    \A i \in 1..NumVtols : vtols[i].hover_count <= MaxHoverCount

\* C23: under fair ticking every VTOL that is hovering eventually is landed
\* at its destination or is marked for removal by the hover-abort
\* safeguard (hover_count above max_hover_count): no VTOL hovers for ever.
C23_HoveringEnds ==
    \A i \in 1..MaxFairVtols :
        (i <= NumVtols /\ vtols[i].state = "hovering")
        ~> (/\ i <= NumVtols
            /\ \/ /\ vtols[i].state = "landed"
                  /\ vtols[i].current_vertiport = vtols[i].destination_vertiport
               \/ /\ vtols[i].clean
                  /\ vtols[i].hover_count > MaxHoverCount)

\* C24: after every tick the landed_timer of every VTOL is at most
\* max_landed_time (200); the update that would take it beyond resets it to
\* 0 and marks a one-shot VTOL complete, or has the next stop of a planned
\* route looked up again (the dwell timer is set with the stop found, the
\* short retry timer if there is none).
C24_LandedTimerBounded ==
    [][\A i \in 1..Len(vtols') :
          /\ vtols'[i].landed_timer <= MaxLandedTime
          /\ (/\ i <= NumVtols
              /\ vtols[i].state = "landed" /\ vtols'[i].state = "landed"
              /\ vtols[i].landed_timer = MaxLandedTime
              /\ vtols'[i].landed_timer # MaxLandedTime)
             => /\ vtols'[i].landed_timer = 0
                /\ ~vtols[i].is_circulating => vtols'[i].clean
                /\ vtols[i].is_circulating =>
                      /\ ~vtols'[i].clean
                      /\ \/ /\ vtols'[i].state_timer = DwellTime
                            /\ vtols'[i].has_next_destination
                         \/ vtols'[i].state_timer = RetryShort]_vars

\* a one-shot VTOL whose journey is over where it starts has stayed landed
\* there beyond max_landed_time: it is marked complete and its timer runs
\* again from 0
C24_Witness ==
    \E i \in 1..NumVtols :
        /\ ~vtols[i].is_circulating /\ vtols[i].journey_route = <<"A">>
        /\ vtols[i].state = "landed" /\ vtols[i].clean
        /\ vtols[i].landed_timer = 0

\* C25: a VTOL enters the hovering state only in a tick in which its
\* destination refused it, request_landing returning false on arrival or
\* land_vtol failing at the commit; a VTOL that is landed, or has no
\* destination, is never put into hovering.
C25_HoveringOnlyWhenRefused ==
    [][\A i \in 1..NumVtols :
          (vtols[i].state # "hovering" /\ vtols'[i].state = "hovering")
          => /\ vtols[i].state # "landed"
             /\ vtols'[i].destination_vertiport # None
             /\ \/ /\ ghost'.v[i].arrival_tick = current_time'
                   /\ ghost'.v[i].arrival_vp = vtols'[i].destination_vertiport
                   /\ ~ghost'.v[i].arrival_ok
                \/ /\ ghost'.v[i].commit_tick = current_time'
                   /\ ghost'.v[i].commit_vp = vtols'[i].destination_vertiport
                   /\ ~ghost'.v[i].commit_ok]_vars

C27_FailedRecheckCounts ==
    [][\A i \in 1..NumVtols :
          (/\ vtols[i].state = "hovering" /\ vtols'[i].state = "hovering"
           /\ vtols[i].destination_vertiport # None
           /\ vtols'[i].destination_vertiport = vtols[i].destination_vertiport
           /\ vtols[i].can_attempt_landing \/ vtols[i].state_timer <= 1
           /\ current_time' # current_time)
          => /\ vtols'[i].hover_count = vtols[i].hover_count + 1
             /\ vtols'[i].state_timer > 0]_vars

\* C28: after every tick a landed VTOL has a current_vertiport and no
\* destination_vertiport, and a VTOL that is taking off, flying, landing or
\* hovering has a destination_vertiport.
C28_DestinationMatchesState ==
    \A i \in 1..NumVtols :
        /\ vtols[i].state = "landed" =>
              /\ vtols[i].current_vertiport # None
              /\ vtols[i].destination_vertiport = None
        /\ vtols[i].state \in {"taking_off", "flying", "in_transit",
                               "landing", "hovering"} =>
              vtols[i].destination_vertiport # None

\* C29: a planned-route VTOL that is landed begins taking_off for its next
\* leg only when its dwell timer, set to 15 at the landing, has counted
\* down to zero.
C29_DwellBeforeTakeoff ==
    [][\A i \in 1..NumVtols :
          (/\ PlannedRoute(i)
           /\ vtols[i].state = "landed" /\ vtols'[i].state = "taking_off")
          => vtols[i].state_timer = 0]_vars

\* C30: the first wait of a VTOL that enters hovering is 60 ticks; every
\* failed re-check at its destination sets a wait longer than the wait
\* before it, until the cap of 120 ticks, which no wait exceeds.
C30_BackoffGrows ==
    [][\A i \in 1..NumVtols :
          /\ vtols'[i].state = "hovering" => vtols'[i].state_timer <= HoverCap
          /\ (vtols[i].state # "hovering" /\ vtols'[i].state = "hovering") =>
                ghost'.v[i].wait = HoverTime
          /\ ghost'.v[i].failed = ghost.v[i].failed + 1 =>
                /\ ghost'.v[i].wait <= HoverCap
                /\ \/ ghost'.v[i].wait > ghost.v[i].wait
                   \/ ghost'.v[i].wait = HoverCap]_vars

\* the VTOLs whose landing at p is committed by the step, successfully
LandedAt(p) ==
    {k \in 1..NumVtols : /\ ghost'.v[k].commit_tick = current_time'
                         /\ ghost'.v[k].commit_vp = p
                         /\ ghost'.v[k].commit_ok}

\* C31: in the tick in which a VTOL ends its landing, if land_vtol succeeds
\* every passenger on board bound for the vertiport landed at leaves the
\* VTOL and is appended, in the order on board, to that vertiport's
\* passengers_arrived, and the passengers bound elsewhere stay on board; if
\* land_vtol fails the passengers on board stay on board and the arrival
\* list is left alone.
C31_DisembarkOnLanding ==
    [][\A i \in 1..NumVtols :
          (/\ current_time' = current_time + 1
           /\ vtols[i].state = "landing"
           /\ ghost'.v[i].commit_tick = current_time')
          => LET p == ghost'.v[i].commit_vp
                 on == vtols[i].onboard_passengers
                 out == SelectSeq(on, LAMBDA q : q.destination_vertiport = p)
                 stay == SelectSeq(on, LAMBDA q : q.destination_vertiport # p)
             IN IF ghost'.v[i].commit_ok
                THEN /\ vtols'[i].onboard_passengers = stay
                     /\ LandedAt(p) = {i}
                          => passengers_arrived'[p]
                               = passengers_arrived[p]
                                 \o [k \in 1..Len(out) |->
                                       [out[k] EXCEPT !.state = "leaving"]]
                ELSE /\ vtols'[i].onboard_passengers = on
                     /\ LandedAt(p) = {}
                          => passengers_arrived'[p] = passengers_arrived[p]]_vars

\* the second VTOL lost the landing race at B with a passenger for B on
\* board, who is still on board, while the first VTOL landed at B and its
\* four passengers are in the arrival list of B
C31_Witness ==
    /\ driver = "contended"
    /\ ghost.v[2].commit_tick = current_time /\ ~ghost.v[2].commit_ok
    /\ ghost.v[2].commit_vp = "B"
    /\ vtols[2].state = "hovering"
    /\ Len(vtols[2].onboard_passengers) = 1
    /\ vtols[2].onboard_passengers[1].destination_vertiport = "B"
    /\ ghost.v[1].commit_tick = current_time /\ ghost.v[1].commit_ok
    /\ vtols[1].onboard_passengers = <<>>
    /\ Len(passengers_arrived["B"]) = MaxPassengers

\* the route selection rule: the index of the stop after index i of route R,
\* going backwards when rev
RouteRule(R, i, rev) ==
    LET N == Len(R)
    IN IF R[1] = R[N] THEN (i + 1) % N
       ELSE IF ~rev THEN (IF i + 1 = N THEN i - 1 ELSE i + 1)
       ELSE (IF i - 1 < 0 THEN i + 1 ELSE i - 1)

\* C32: for every planned route R of N >= 2 stops, every index and either
\* direction flag, the stop returned by get_next_planned_destination, the
\* stop scheduled by _set_next_planned_route_destination and the stop at
\* current_route_index after advance_to_next_planned_destination are all
\* the stop the route selection rule gives, and after a successful advance
\* the destination of the VTOL is that stop.
C32_NextStopAgreement ==
    [][\A i \in 1..NumVtols :
          LET v == vtols[i]
              R == v.planned_route
              w == World(current_time)
              stop == R[RouteRule(R, v.current_route_index, v.reverse_direction) + 1]
              committed == advance_to_next_planned_destination(w, i).vtols[i]
          IN (Len(R) >= 2 /\ last'.op # "init") =>
               /\ v.current_route_index \in 0..(Len(R) - 1)
               /\ get_next_planned_destination_ret(w, i) = stop
               /\ set_next_planned_route_destination(w, i).vtols[i].next_destination = stop
               /\ committed.planned_route[committed.current_route_index + 1] = stop
               /\ advance_to_next_planned_destination_ret(w, i)
                     => committed.destination_vertiport = stop
               /\ last'.op = "get_next_planned_destination" => last'.ret = stop
               /\ last'.op = "_set_next_planned_route_destination"
                     => /\ last'.ret
                        /\ vtols'[i].next_destination = stop
               /\ last'.op = "start_planned_routes"
                     => /\ R[vtols'[i].current_route_index + 1] = stop
                        /\ advance_to_next_planned_destination_ret(w, i)
                              => vtols'[i].destination_vertiport = stop]_vars

\* on the ping-pong route A, B, C the VTOL has been advanced to B, to C and
\* back to B, with the direction flag turned, and B is the stop last
\* scheduled as well
C32_Witness ==
    /\ driver = "selection"
    /\ vtols[1].planned_route = <<"A", "B", "C">>
    /\ ghost.v[1].selected = <<"B", "C", "B">>
    /\ last.op = "start_planned_routes"
    /\ vtols[1].current_route_index = 1
    /\ vtols[1].reverse_direction
    /\ vtols[1].destination_vertiport = "B"
    /\ vtols[1].next_destination = "B"

\* run_simulation has returned before max_time steps were made
ReturnedEarly ==
    driver = "run" /\ current_time > 0 /\ current_time < Horizon /\ AllLanded

\* C33: when run_simulation returns after fewer than max_time steps, every
\* one-shot VTOL is in state landed at its final destination; it does not
\* stop while a one-shot VTOL is at an intermediate vertiport of its
\* journey.
C33_EarlyStopAtFinal ==
    ReturnedEarly =>
        \A i \in 1..NumVtols :
            OneShot(i) => /\ vtols[i].state = "landed"
                          /\ vtols[i].current_vertiport = vtols[i].final_destination

\* C34: at the end of every tick the route index of a planned-route VTOL
\* agrees with where it is: landed, it is at the vertiport named
\* planned_route[current_route_index]; airborne (taking off, flying,
\* landing or hovering), that vertiport is its destination.
C34_IndexFollowsPosition ==
    \A i \in 1..NumVtols :
        PlannedRoute(i) =>
            LET v == vtols[i]
                stop == v.planned_route[v.current_route_index + 1]
            IN /\ v.current_route_index \in 0..(Len(v.planned_route) - 1)
               /\ v.state = "landed" => v.current_vertiport = stop
               /\ v.state \in {"taking_off", "flying", "in_transit", "landing", "hovering"}
                     => v.destination_vertiport = stop

\* C35: a call of advance_to_next_planned_destination on a landed VTOL that
\* returns false leaves current_route_index and reverse_direction as they
\* were and the VTOL landed at the same vertiport.
C35_FailedAdvanceKeepsIndex ==
    [][\A i \in 1..NumVtols :
          (/\ last'.op = "start_planned_routes"
           /\ PlannedRoute(i)
           /\ vtols[i].state = "landed"
           /\ ~advance_to_next_planned_destination_ret(World(current_time), i))
          => /\ vtols'[i].current_route_index = vtols[i].current_route_index
             /\ vtols'[i].reverse_direction = vtols[i].reverse_direction
             /\ vtols'[i].state = "landed"
             /\ vtols'[i].current_vertiport = vtols[i].current_vertiport]_vars

\* C36: in every reachable state every VTOL in a vertiport's occupied_slots
\* appears there exactly once, is in state landed and has that vertiport as
\* its current_vertiport; so no VTOL holds a slot of two vertiports and a
\* VTOL that has taken off holds none.
C36_SlotHolderIsLandedThere ==
    \A p \in VertiportNames :
        \A k \in 1..Len(occupied_slots[p]) :
            LET i == occupied_slots[p][k]
            IN /\ i \in 1..NumVtols
               /\ Count(occupied_slots[p], i) = 1
               /\ vtols[i].state = "landed"
               /\ vtols[i].current_vertiport = p
               /\ \A q \in VertiportNames \ {p} : i \notin Range(occupied_slots[q])

\* a VTOL holds the slot of B, landed there, after another VTOL that had
\* landed at B took off from it and now holds no slot anywhere
C36_Witness ==
    \E i, j \in 1..NumVtols :
        /\ i # j
        /\ occupied_slots["B"] = <<i>>
        /\ vtols[i].state = "landed" /\ vtols[i].current_vertiport = "B"
        /\ ghost.v[j].commit_ok /\ ghost.v[j].commit_vp = "B"
        /\ ghost.v[j].left["B"] > ghost.v[j].commit_tick
        /\ vtols[j].state \in {"taking_off", "flying", "landing", "hovering"}
        /\ \A p \in VertiportNames : j \notin Range(occupied_slots[p])

\* C37: in every reachable state every VTOL that is hovering and has not
\* been aborted is in the hovering_queue of its destination vertiport, also
\* when it went hovering because land_vtol refused it at the end of its
\* landing.
C37_HoveringIsQueued ==
    \A i \in 1..NumVtols :
        (/\ vtols[i].state = "hovering"
         /\ ~vtols[i].clean
         /\ vtols[i].destination_vertiport # None)
        => i \in Range(hovering_queue[vtols[i].destination_vertiport])

\* VTOL i has been marked for removal by the hover-abort safeguard: a
\* planned-route VTOL is marked by nothing else, and hover_count passes
\* max_hover_count only in the call that aborts
Aborted(i) ==
    vtols[i].clean /\ (PlannedRoute(i) \/ vtols[i].hover_count > MaxHoverCount)

\* C38: once the hover-abort safeguard has marked a VTOL for removal, no
\* later step adds it to the occupied_slots or the hovering_queue of any
\* vertiport.
C38_AbortedStaysOut ==
    [][\A i \in 1..NumVtols :
          Aborted(i)
          => \A p \in VertiportNames :
                /\ i \in Range(occupied_slots'[p]) => i \in Range(occupied_slots[p])
                /\ i \in Range(hovering_queue'[p]) => i \in Range(hovering_queue[p])]_vars

\* the identities of the passengers in a list
IdsOf(s) == {s[k].id : k \in 1..Len(s)}

\* the identities of all the passengers the simulation holds
AllIds ==
    UNION ({IdsOf(passengers_waiting[p]) : p \in VertiportNames}
           \cup {IdsOf(passengers_arrived[p]) : p \in VertiportNames}
           \cup {IdsOf(vtols[i].onboard_passengers) : i \in 1..NumVtols})

\* the places where the passenger of identity x is found, one for every
\* occurrence in a waiting list, an arrival list or on board a VTOL
Places(x) ==
    UNION ({{<<"waiting", p, k>> : k \in {j \in 1..Len(passengers_waiting[p]) :
                                            passengers_waiting[p][j].id = x}}
               : p \in VertiportNames}
           \cup {{<<"arrived", p, k>> : k \in {j \in 1..Len(passengers_arrived[p]) :
                                                  passengers_arrived[p][j].id = x}}
                    : p \in VertiportNames}
           \cup {{<<"onboard", i, k>> : k \in {j \in 1..Len(vtols[i].onboard_passengers) :
                                                  vtols[i].onboard_passengers[j].id = x}}
                    : i \in 1..NumVtols})

\* C39: boarding and disembarking neither lose nor duplicate passengers: a
\* step that is not add_passenger leaves the set of passengers as it is,
\* add_passenger adds one; after every step every passenger is in exactly
\* one place among the waiting lists, the VTOLs and the arrival lists; and a
\* passenger in an arrival list stays in that list.
C39_PassengersConserved ==
    [][/\ AllIds \subseteq AllIds'
       /\ IF last'.op = "spawn_passenger_at_vertiport"
          THEN Cardinality(AllIds') = Cardinality(AllIds) + 1
          ELSE AllIds' = AllIds
       /\ \A x \in AllIds' : Cardinality(Places(x)') = 1
       /\ \A p \in VertiportNames :
             IdsOf(passengers_arrived[p]) \subseteq IdsOf(passengers_arrived'[p])]_vars

\* five passengers for B were spawned at A; four flew with the first VTOL,
\* the fifth stayed on board the second VTOL while it hovered at B, and all
\* five are now in the arrival list of B, nobody waiting or on board
C39_Witness ==
    /\ driver = "contended"
    /\ IdsOf(passengers_arrived["B"])
          = {<<"A", 0, 0>>, <<"A", 0, 1>>, <<"A", 0, 2>>, <<"A", 0, 3>>, <<"A", 0, 4>>}
    /\ Len(passengers_arrived["B"]) = 5
    /\ passengers_arrived["B"][5].id = <<"A", 0, 4>>
    /\ ghost.v[2].commit_ok /\ ghost.v[2].commit_vp = "B"
    /\ ghost.v[2].race.vp = "B"
    /\ \A p \in VertiportNames : passengers_waiting[p] = <<>>
    /\ \A i \in 1..NumVtols : vtols[i].onboard_passengers = <<>>

====
